---- MODULE Spec2Model ----
(***************************************************************************)
(* A model of the versioned key/value engine of message-db: the memory and *)
(* fsdir backing stores, the static (content addressed) store, the tree    *)
(* collection, and the zipper with its transaction protocol on HEAD.       *)
(*                                                                         *)
(* Every value is a record, so that any two values can be compared:        *)
(*   Undefined, None        the sentinels of prelude.py / Python           *)
(*   [address |-> a]        an sref                                        *)
(*   [sha1 |-> bytes]       the address sha1 gives to a byte string        *)
(*   [bytes |-> state]      what the codec writes for a value              *)
(***************************************************************************)
EXTENDS Integers, Sequences, FiniteSets, TLC

(***************************************************************************)
(* Bounds of the model.                                                    *)
(***************************************************************************)
\* number of transactions (begin_transaction calls) in one behaviour
MaxTx == 2
\* number of close() and destroy() calls in one behaviour
MaxLife == 1
\* now() returns one of 0..MaxTime
MaxTime == 1

Zippers == {1, 2}
Keys == {1, 2}

(***************************************************************************)
(* prelude.py, repo.py: sentinels and references.                          *)
(***************************************************************************)
Undefined == [type |-> "undefined"]
None == [type |-> "none"]

sref(address) == [address |-> address]
Deleted == sref([literal |-> "deleted"])

\* The objects a caller may put into a delta.  id is the identity of the
\* Python object (id(obj)), v its content.
Objs == { [type |-> "int", id |-> 1, v |-> 1],
          [type |-> "int", id |-> 2, v |-> 2] }

\* In applied to value: the value is computed once, as a local variable is
Let(value, In(_)) == In(value)

isReference(x) == "address" \in DOMAIN x

(***************************************************************************)
(* collections.py: tree, a dict with a sorted index of its keys.           *)
(***************************************************************************)
EmptyFcn == [k \in {} |-> None]

tree_new == [dict |-> EmptyFcn, index |-> <<>>]

RECURSIVE bisect_left(_, _)
\* number of leading elements of the sorted list a that are < x
bisect_left(a, x) ==
    IF a = <<>> \/ ~(Head(a) < x) THEN 0 ELSE 1 + bisect_left(Tail(a), x)

insort_left(a, x) ==
    LET i == bisect_left(a, x)
    IN  SubSeq(a, 1, i) \o <<x>> \o SubSeq(a, i + 1, Len(a))

RECURSIVE list_remove(_, _)
\* list.remove(x): drops the first occurrence (the callers catch or avoid
\* the ValueError of a missing x)
list_remove(a, x) ==
    IF a = <<>> THEN <<>>
    ELSE IF Head(a) = x THEN Tail(a)
    ELSE <<Head(a)>> \o list_remove(Tail(a), x)

tree_contains(t, key) == key \in DOMAIN t.dict

\* a __setitem__ that appends a new key to the index
tree_setitem_append(t, key, value) ==
    [dict  |-> [k \in DOMAIN t.dict \cup {key} |->
                    IF k = key THEN value ELSE t.dict[k]],
     index |-> IF tree_contains(t, key) THEN t.index
               ELSE Append(t.index, key)]

tree_setitem(t, key, value) ==
    [dict  |-> [k \in DOMAIN t.dict \cup {key} |->
                    IF k = key THEN value ELSE t.dict[k]],
     index |-> IF tree_contains(t, key) THEN t.index
               ELSE insort_left(t.index, key)]

\* __delitem__; a missing key is a KeyError, which the callers test first
tree_delitem(t, key) ==
    [dict  |-> [k \in DOMAIN t.dict \ {key} |-> t.dict[k]],
     index |-> list_remove(t.index, key)]

\* a pop that leaves the key in the index
tree_pop_keep_index(t, key) ==
    [dict  |-> [k \in DOMAIN t.dict \ {key} |-> t.dict[k]],
     index |-> t.index]

\* pop(key, None)
tree_pop(t, key) ==
    [dict  |-> [k \in DOMAIN t.dict \ {key} |-> t.dict[k]],
     index |-> list_remove(t.index, key)]

tree_get(t, key, default) ==
    IF tree_contains(t, key) THEN t.dict[key] ELSE default

tree_iteritems(t) == [i \in 1 .. Len(t.index) |-> <<t.index[i], t.dict[t.index[i]]>>]

tree_copy(t) == [dict |-> t.dict, index |-> t.index]

tree_len(t) == Cardinality(DOMAIN t.dict)

RECURSIVE tree_update(_, _)
\* update(seq): __setitem__ for every pair, in order
tree_update(t, seq) ==
    IF seq = <<>> THEN t
    ELSE tree_update(tree_setitem(t, Head(seq)[1], Head(seq)[2]), Tail(seq))

(***************************************************************************)
(* The codec.  A value is written as its state: an int as itself (the      *)
(* identity of the Python object is not written), a RefMap as the list of  *)
(* its items in index order, a structure as its fields.                    *)
(***************************************************************************)
isTree(x) == "index" \in DOMAIN x

getstate(value) ==
    IF isTree(value) THEN [type |-> "refmap", items |-> tree_iteritems(value)]
    ELSE IF "type" \in DOMAIN value /\ value.type = "int"
    THEN [type |-> "int", v |-> value.v]
    ELSE value

dumps_binary(value) == [bytes |-> getstate(value)]

\* RefMap.__setstate__ is self.update(state)
loads_binary(data) ==
    IF "type" \in DOMAIN data.bytes /\ data.bytes.type = "refmap"
    THEN tree_update(tree_new, data.bytes.items)
    ELSE data.bytes

(***************************************************************************)
(* store/memory.py: the in-memory backing store.  m is the store object:   *)
(* open is "_data is not None", data is _data and cas is _cas.  A call on  *)
(* a closed store fails on None (err = "Closed").                          *)
(***************************************************************************)
DataType == EmptyFcn
CasType == EmptyFcn

memory_new == [open |-> FALSE, data |-> EmptyFcn, cas |-> EmptyFcn]

memory_open(m) ==
    IF ~m.open THEN [open |-> TRUE, data |-> DataType, cas |-> CasType] ELSE m

memory_close(m) ==
    IF m.open THEN [open |-> FALSE, data |-> EmptyFcn, cas |-> EmptyFcn] ELSE m

memory_get(m, key) ==
    IF key \in DOMAIN m.data THEN m.data[key] ELSE Undefined

\* gets: the token is None for a missing key, else _cas.setdefault(key, 0)
memory_gets(m, key) ==
    IF ~m.open THEN [m |-> m, value |-> Undefined, token |-> None, err |-> "Closed"]
    ELSE IF key \notin DOMAIN m.data
    THEN [m |-> m, value |-> Undefined, token |-> None, err |-> ""]
    ELSE LET cas == IF key \in DOMAIN m.cas THEN m.cas
                    ELSE [k \in DOMAIN m.cas \cup {key} |->
                              IF k = key THEN 0 ELSE m.cas[k]]
         IN  [m |-> [m EXCEPT !.cas = cas], value |-> m.data[key],
              token |-> [tok |-> cas[key]], err |-> ""]

memory_set(m, key, value) ==
    [open |-> m.open,
     data |-> [k \in DOMAIN m.data \cup {key} |->
                   IF k = key THEN value ELSE m.data[k]],
     cas  |-> [k \in DOMAIN m.cas |->
                   IF k = key THEN m.cas[k] + 1 ELSE m.cas[k]]]

\* an add that does not test for the key
memory_add_over(m, key, value) ==
    IF ~m.open THEN [m |-> m, err |-> "Closed"]
    ELSE [m |-> memory_set(m, key, value), err |-> ""]

memory_add(m, key, value) ==
    IF ~m.open THEN [m |-> m, err |-> "Closed"]
    ELSE IF key \in DOMAIN m.data THEN [m |-> m, err |-> "NotStored"]
    ELSE [m |-> memory_set(m, key, value), err |-> ""]

RECURSIVE memory_madd_loop(_, _, _)
memory_madd_loop(m, pairs, errors) ==
    IF pairs = <<>> THEN [m |-> m, errors |-> errors]
    ELSE LET key == Head(pairs)[1]
             value == Head(pairs)[2]
         IN  IF key \in DOMAIN m.data
             THEN memory_madd_loop(m, Tail(pairs), errors \cup {key})
             ELSE memory_madd_loop(memory_set(m, key, value), Tail(pairs), errors)

\* madd: an empty batch never looks at _data, so it passes on a closed store
\* keys is the argument of the exception
memory_madd(m, pairs) ==
    IF pairs = <<>> THEN [m |-> m, err |-> "", keys |-> {}]
    ELSE IF ~m.open THEN [m |-> m, err |-> "Closed", keys |-> {}]
    ELSE Let(memory_madd_loop(m, pairs, {}), LAMBDA r :
             [m |-> r.m, err |-> IF r.errors # {} THEN "NotStored" ELSE "",
              keys |-> r.errors])

RECURSIVE memory_mset(_, _)
memory_mset(m, pairs) ==
    IF pairs = <<>> THEN m
    ELSE memory_mset(memory_set(m, Head(pairs)[1], Head(pairs)[2]), Tail(pairs))

memory_replace(m, key, value) ==
    IF ~m.open THEN [m |-> m, err |-> "Closed"]
    ELSE IF key \notin DOMAIN m.data THEN [m |-> m, err |-> "NotStored"]
    ELSE [m |-> memory_set(m, key, value), err |-> ""]

RECURSIVE memory_mreplace_loop(_, _, _)
memory_mreplace_loop(m, pairs, errors) ==
    IF pairs = <<>> THEN [m |-> m, errors |-> errors]
    ELSE LET key == Head(pairs)[1]
             value == Head(pairs)[2]
         IN  IF key \notin DOMAIN m.data
             THEN memory_mreplace_loop(m, Tail(pairs), errors \cup {key})
             ELSE memory_mreplace_loop(memory_set(m, key, value), Tail(pairs),
                                       errors)

memory_mreplace(m, pairs) ==
    IF pairs = <<>> THEN [m |-> m, err |-> "", keys |-> {}]
    ELSE IF ~m.open THEN [m |-> m, err |-> "Closed", keys |-> {}]
    ELSE Let(memory_mreplace_loop(m, pairs, {}), LAMBDA r :
             [m |-> r.m, err |-> IF r.errors # {} THEN "NotStored" ELSE "",
              keys |-> r.errors])

\* a cas that does not compare the token
memory_cas_any(m, key, value, token) ==
    IF ~m.open THEN [m |-> m, err |-> "Closed"]
    ELSE IF key \notin DOMAIN m.cas THEN [m |-> m, err |-> "NotStored"]
    ELSE [m |-> memory_set(m, key, value), err |-> ""]

memory_cas(m, key, value, token) ==
    IF ~m.open THEN [m |-> m, err |-> "Closed"]
    ELSE IF key \notin DOMAIN m.cas \/ [tok |-> m.cas[key]] # token
    THEN [m |-> m, err |-> "NotStored"]
    ELSE [m |-> memory_set(m, key, value), err |-> ""]

memory_delete(m, key) ==
    IF ~m.open THEN [m |-> m, err |-> "Closed"]
    ELSE IF key \notin DOMAIN m.data THEN [m |-> m, err |-> "NotFound"]
    ELSE [m |-> [m EXCEPT !.data = [k \in DOMAIN m.data \ {key} |-> m.data[k]]],
          err |-> ""]

RECURSIVE memory_mdelete_loop(_, _, _)
memory_mdelete_loop(m, keys, errors) ==
    IF keys = <<>> THEN [m |-> m, errors |-> errors]
    ELSE IF Head(keys) \notin DOMAIN m.data
    THEN memory_mdelete_loop(m, Tail(keys), errors \cup {Head(keys)})
    ELSE memory_mdelete_loop(memory_delete(m, Head(keys)).m, Tail(keys), errors)

memory_mdelete(m, keys) ==
    IF keys = <<>> THEN [m |-> m, err |-> "", keys |-> {}]
    ELSE IF ~m.open THEN [m |-> m, err |-> "Closed", keys |-> {}]
    ELSE Let(memory_mdelete_loop(m, keys, {}), LAMBDA r :
             [m |-> r.m, err |-> IF r.errors # {} THEN "NotFound" ELSE "",
              keys |-> r.errors])

(***************************************************************************)
(* store/fsdir.py: a store of files in a directory.  dir is the directory  *)
(* (the files by key), cas the _cas dict of one fsdir object; rnd is what  *)
(* random.getrandbits(16) returns.  The files are named by the sha1 of the *)
(* key and hold the gzipped value.                                         *)
(***************************************************************************)
fsdir_key_path(key) == [sha1 |-> key]

fsdir_gzwrite(data) == [gzip |-> data]

fsdir_gzread(file) == file.gzip

fsdir_get(dir, key) ==
    IF fsdir_key_path(key) \in DOMAIN dir
    THEN fsdir_gzread(dir[fsdir_key_path(key)]) ELSE Undefined

fsdir_exists(dir, key) == fsdir_key_path(key) \in DOMAIN dir

\* _set: writes the file; self._cas[key] += random.getrandbits(16)
fsdir_set(dir, cas, key, value, rnd) ==
    [dir |-> [f \in DOMAIN dir \cup {fsdir_key_path(key)} |->
                 IF f = fsdir_key_path(key) THEN fsdir_gzwrite(value) ELSE dir[f]],
     cas |-> [k \in DOMAIN cas |-> IF k = key THEN cas[k] + rnd ELSE cas[k]]]

\* _make_cas_token
fsdir_make_cas_token(dir, cas, key, value, rnd) ==
    IF value = Undefined THEN [cas |-> cas, value |-> value, token |-> None]
    ELSE IF key \in DOMAIN cas
    THEN [cas |-> cas, value |-> value, token |-> [tok |-> cas[key]]]
    ELSE [cas |-> [k \in DOMAIN cas \cup {key} |-> IF k = key THEN rnd ELSE cas[k]],
          value |-> value, token |-> [tok |-> rnd]]

fsdir_gets(dir, cas, key, rnd) ==
    fsdir_make_cas_token(dir, cas, key, fsdir_get(dir, key), rnd)

\* _valid_cas_token
fsdir_valid_cas_token(cas, key, token) ==
    key \in DOMAIN cas /\ token = [tok |-> cas[key]]

fsdir_add(dir, cas, key, value, rnd) ==
    IF fsdir_exists(dir, key) THEN [dir |-> dir, cas |-> cas, err |-> "NotStored"]
    ELSE fsdir_set(dir, cas, key, value, rnd) @@ [err |-> ""]

fsdir_cas(dir, cas, key, value, token, rnd) ==
    IF ~fsdir_valid_cas_token(cas, key, token)
    THEN [dir |-> dir, cas |-> cas, err |-> "NotStored"]
    ELSE fsdir_set(dir, cas, key, value, rnd) @@ [err |-> ""]

fsdir_replace(dir, cas, key, value, rnd) ==
    IF ~fsdir_exists(dir, key) THEN [dir |-> dir, cas |-> cas, err |-> "NotStored"]
    ELSE fsdir_set(dir, cas, key, value, rnd) @@ [err |-> ""]

\* delete: the file is unlinked, _cas stays as it is
\* a delete that does not report a missing file
fsdir_delete_quiet(dir, cas, key) ==
    [dir |-> [f \in DOMAIN dir \ {fsdir_key_path(key)} |-> dir[f]],
     cas |-> cas, err |-> ""]

fsdir_delete(dir, cas, key) ==
    IF ~fsdir_exists(dir, key) THEN [dir |-> dir, cas |-> cas, err |-> "NotFound"]
    ELSE [dir |-> [f \in DOMAIN dir \ {fsdir_key_path(key)} |-> dir[f]],
          cas |-> cas, err |-> ""]

RECURSIVE fsdir_mset(_, _, _, _)
\* rnds[i] is what getrandbits returns in the i-th _set of the batch
fsdir_mset(dir, cas, pairs, rnds) ==
    IF pairs = <<>> THEN [dir |-> dir, cas |-> cas]
    ELSE Let(fsdir_set(dir, cas, Head(pairs)[1], Head(pairs)[2], Head(rnds)),
             LAMBDA r : fsdir_mset(r.dir, r.cas, Tail(pairs), Tail(rnds)))

RECURSIVE fsdir_madd_loop(_, _, _, _, _)
fsdir_madd_loop(dir, cas, pairs, rnds, errors) ==
    IF pairs = <<>> THEN [dir |-> dir, cas |-> cas, errors |-> errors]
    ELSE IF fsdir_exists(dir, Head(pairs)[1])
    THEN fsdir_madd_loop(dir, cas, Tail(pairs), Tail(rnds),
                         errors \cup {Head(pairs)[1]})
    ELSE Let(fsdir_set(dir, cas, Head(pairs)[1], Head(pairs)[2], Head(rnds)),
             LAMBDA r : fsdir_madd_loop(r.dir, r.cas, Tail(pairs), Tail(rnds),
                                        errors))

fsdir_madd(dir, cas, pairs, rnds) ==
    Let(fsdir_madd_loop(dir, cas, pairs, rnds, {}), LAMBDA r :
        [dir |-> r.dir, cas |-> r.cas,
         err |-> IF r.errors # {} THEN "NotStored" ELSE "", keys |-> r.errors])

\* mreplace: the loop only collects the missing keys; the one _set comes
\* after the loop, with the key and value of the last pair (no pair at
\* all: key is an unbound local)
fsdir_mreplace(dir, cas, pairs, rnd) ==
    LET errors == { pairs[i][1] : i \in { j \in 1 .. Len(pairs) :
                                           ~fsdir_exists(dir, pairs[j][1]) } }
    IN  IF pairs = <<>>
        THEN [dir |-> dir, cas |-> cas, err |-> "UnboundLocalError", keys |-> {}]
        ELSE fsdir_set(dir, cas, pairs[Len(pairs)][1], pairs[Len(pairs)][2], rnd)
             @@ [err |-> IF errors # {} THEN "NotStored" ELSE "", keys |-> errors]

\* mdelete: "with self._lock(key)" reads key before the loop binds it
fsdir_mdelete(dir, cas, keys) ==
    [dir |-> dir, cas |-> cas, err |-> "UnboundLocalError", keys |-> {}]

(***************************************************************************)
(* store/prefixed.py and store/static.py over the memory store.            *)
(***************************************************************************)
\* prefixed._key / static._key: prefix + key
store_key(prefix, key) == [prefix |-> prefix, key |-> key]

HEAD == [name |-> "HEAD"]
HeadKey == store_key("", HEAD)

DEFAULT_CACHE_SIZE == 1000

\* a digest that is the same for every data
static_digest_const(data) == [sha1 |-> None]

static_digest(data) == [sha1 |-> data]

\* a key that is the same for every address
static_key_flat(address) == store_key("objects/", None)

static_key(address) == store_key("objects/", address)

\* c is the static store object: open is "_cache is not None", map is _cache
static_new == [open |-> FALSE, map |-> EmptyFcn]

\* _cache_size: the cache argument of the constructor, DEFAULT_CACHE_SIZE
\* when none is given
static_cache_size(c) == IF "size" \in DOMAIN c THEN c.size ELSE DEFAULT_CACHE_SIZE

\* a cache that is never emptied
static_cached_unbounded(c, address, value) ==
    IF address \in DOMAIN c.map THEN [c |-> c, value |-> c.map[address]]
    ELSE [c |-> [c EXCEPT !.map = [a \in DOMAIN c.map \cup {address} |->
                              IF a = address THEN value ELSE c.map[a]]],
          value |-> value]

static_cached(c, address, value) ==
    LET map == IF Cardinality(DOMAIN c.map) > static_cache_size(c)
               THEN EmptyFcn ELSE c.map
    IN  IF address \in DOMAIN map
        THEN [c |-> [c EXCEPT !.map = map], value |-> map[address]]
        ELSE [c |-> [c EXCEPT !.map = [a \in DOMAIN map \cup {address} |->
                                  IF a = address THEN value ELSE map[a]]],
              value |-> value]

static_dump(value) ==
    Let(dumps_binary(value), LAMBDA data :
        [address |-> static_digest(data), data |-> data])

\* _load: a stored value whose digest is not its address is a BadObject
static_load(c, address, value) ==
    IF value = Undefined
    THEN static_cached(c, address, Undefined) @@ [err |-> ""]
    ELSE IF static_digest(value) # address
    THEN [c |-> c, value |-> Undefined, err |-> "BadObject"]
    ELSE static_cached(c, address, loads_binary(value)) @@ [err |-> ""]

static_get(m, c, address) ==
    IF address \in DOMAIN c.map
    THEN [c |-> c, value |-> c.map[address], err |-> ""]
    ELSE IF ~m.open THEN [c |-> c, value |-> Undefined, err |-> "Closed"]
    ELSE static_load(c, address, memory_get(m, static_key(address)))

\* _store(None, value): NotStored from add is suppressed
static_store(m, c, value) ==
    Let(static_dump(value), LAMBDA d :
    Let(memory_add(m, static_key(d.address), d.data), LAMBDA r :
    Let(static_cached(c, d.address, value), LAMBDA s :
        IF r.err = "Closed"
        THEN [m |-> m, c |-> c, address |-> d.address, value |-> value, err |-> "Closed"]
        ELSE [m |-> r.m, c |-> s.c, address |-> d.address, value |-> s.value,
              err |-> ""])))

\* _mstore((None, v) for v in values): the cache is not touched
static_mstore(m, values) ==
    Let([i \in 1 .. Len(values) |-> static_dump(values[i])], LAMBDA data :
    Let(memory_madd(m, [i \in 1 .. Len(values) |->
                           <<static_key(data[i].address), data[i].data>>]), LAMBDA r :
        IF r.err = "Closed"
        THEN [m |-> m, pairs |-> <<>>, err |-> "Closed"]
        ELSE [m |-> r.m,
              pairs |-> [i \in 1 .. Len(values) |-> <<data[i].address, values[i]>>],
              err |-> ""]))

RECURSIVE static_mget_loop(_, _, _, _)
\* the second loop of mget: need are the addresses to load, in the order of
\* the dict need; out are the pairs yielded
static_mget_loop(m, c, need, out) ==
    IF need = <<>> THEN [c |-> c, pairs |-> out, err |-> ""]
    ELSE Let(static_load(c, Head(need), memory_get(m, static_key(Head(need)))),
             LAMBDA r :
                 IF r.err # "" THEN [c |-> c, pairs |-> out, err |-> r.err]
                 ELSE static_mget_loop(m, r.c, Tail(need),
                                       Append(out, <<Head(need), r.value>>)))

\* mget: the cached addresses are yielded first
static_mget(m, c, addresses) ==
    LET cached(i) == addresses[i] \in DOMAIN c.map
        hits == SelectSeq([i \in 1 .. Len(addresses) |->
                              IF cached(i)
                              THEN <<addresses[i], c.map[addresses[i]]>>
                              ELSE <<>>],
                          LAMBDA p : p # <<>>)
        need == SelectSeq(addresses, LAMBDA a : a \notin DOMAIN c.map)
    IN  IF need # <<>> /\ ~m.open
        THEN [c |-> c, pairs |-> hits, err |-> "Closed"]
        ELSE static_mget_loop(m, c, need, hits)

(***************************************************************************)
(* repo.py: the working manifest.                                          *)
(***************************************************************************)
RECURSIVE tree_merge_items(_, _)
\* tree_merge over the item lists of two trees: mine wins
tree_merge_items(mine, yours) ==
    IF mine = <<>> THEN yours
    ELSE IF yours = <<>> THEN mine
    ELSE LET mk == Head(mine)[1]
             yk == Head(yours)[1]
         IN  IF mk = yk
             THEN <<Head(mine)>> \o tree_merge_items(Tail(mine), Tail(yours))
             ELSE IF mk < yk
             THEN <<Head(mine)>> \o tree_merge_items(Tail(mine), yours)
             ELSE <<Head(yours)>> \o tree_merge_items(mine, Tail(yours))

\* a tree_merge in which yours wins
tree_merge_yours(mine, yours) ==
    tree_merge_items(tree_iteritems(yours), tree_iteritems(mine))

tree_merge(mine, yours) ==
    tree_merge_items(tree_iteritems(mine), tree_iteritems(yours))

\* a get that returns Deleted as it finds it
working_get_unshadowed(changes, manifest, key) ==
    IF tree_contains(changes, key) THEN changes.dict[key]
    ELSE tree_get(manifest, key, Undefined)

\* working(changes, manifest).get(key)
working_get(changes, manifest, key) ==
    LET value == IF tree_contains(changes, key) THEN changes.dict[key]
                 ELSE tree_get(manifest, key, Undefined)
    IN  IF value = Deleted THEN Undefined ELSE value

isNotDeleted(item) == item[2] # Deleted

\* working(changes, manifest).iteritems()
working_iteritems(changes, manifest) ==
    SelectSeq(tree_merge(changes, manifest), isNotDeleted)

(***************************************************************************)
(* repo.py: commits and checkpoints.  x is the pair of objects a zipper    *)
(* operation works on: x.m the backing store, x.c the zipper's static      *)
(* store (_objects).  Results carry err: "" or the exception raised.       *)
(***************************************************************************)
anonymous == "Anonymous <nobody@example.net>"

isCheckpoint(x) == "type" \in DOMAIN x /\ x.type = "checkpoint"

\* bool(obj): Undefined and None are false, structures are true
truthy(x) == x # Undefined /\ x # None

\* a put that computes the address and stores nothing
refput_unstored(x, obj) ==
    [m |-> x.m, c |-> x.c, ref |-> sref(static_dump(obj).address), err |-> ""]

\* zipper.put / refput
refput(x, obj) ==
    Let(static_store(x.m, x.c, obj), LAMBDA r :
        [m |-> r.m, c |-> r.c, ref |-> sref(r.address), err |-> r.err])

ref(x, obj) ==
    IF isReference(obj) THEN [m |-> x.m, c |-> x.c, ref |-> obj, err |-> ""]
    ELSE refput(x, obj)

RECURSIVE ref_list(_, _)
\* list(ref(zs, o) for o in objs)
ref_list(x, objs) ==
    IF objs = <<>> THEN [m |-> x.m, c |-> x.c, refs |-> <<>>, err |-> ""]
    ELSE Let(ref(x, Head(objs)), LAMBDA r :
             IF r.err # "" THEN [m |-> r.m, c |-> r.c, refs |-> <<>>, err |-> r.err]
             ELSE Let(ref_list(r, Tail(objs)), LAMBDA rest :
                      [rest EXCEPT !.refs = <<r.ref>> \o rest.refs]))

\* zipper.deref
deref(x, r) ==
    Let(static_get(x.m, x.c, r.address), LAMBDA g :
        [m |-> x.m, c |-> g.c, value |-> g.value, err |-> g.err])

make_checkpoint(x, when, msg, changes, commits, prev) ==
    Let(ref(x, changes), LAMBDA r1 :
    Let(ref_list(r1, commits), LAMBDA r2 :
    Let(ref_list(r2, prev), LAMBDA r3 :
        [m |-> r3.m, c |-> r3.c,
         err |-> IF r1.err # "" THEN r1.err ELSE IF r2.err # "" THEN r2.err
                 ELSE r3.err,
         value |-> [type |-> "checkpoint", author |-> anonymous, when |-> when,
                    message |-> msg, changes |-> r1.ref,
                    commits |-> r2.refs, prev |-> r3.refs]])))

make_commit(x, when, msg, changes, prev) ==
    Let(ref(x, changes), LAMBDA r1 :
    Let(ref_list(r1, prev), LAMBDA r2 :
        [m |-> r2.m, c |-> r2.c,
         err |-> IF r1.err # "" THEN r1.err ELSE r2.err,
         value |-> [type |-> "commit", author |-> anonymous, when |-> when,
                    message |-> msg, changes |-> r1.ref, prev |-> r2.refs]]))

empty_commit(x, when) == make_commit(x, when, "", tree_new, <<>>)

empty_checkpoint(x, when, commit) ==
    make_checkpoint(x, when, "", tree_new, <<commit>>, <<>>)

last_checkpoint(x, head) == deref(x, head)

\* check and check.commits
hasCommits(check) == truthy(check) /\ check.commits # <<>>

last_commit(x, head) ==
    Let(last_checkpoint(x, head), LAMBDA r :
        IF r.err # "" \/ ~hasCommits(r.value) THEN [r EXCEPT !.value = Undefined]
        ELSE deref(r, r.value.commits[1]))

last_changeset(x, head) ==
    Let(last_checkpoint(x, head), LAMBDA r :
        IF r.err # "" THEN r
        ELSE IF truthy(r.value) THEN deref(r, r.value.changes)
        ELSE [r EXCEPT !.value = tree_new])

last_manifest(x, head) ==
    Let(last_commit(x, head), LAMBDA r :
        IF r.err # "" THEN r
        ELSE IF truthy(r.value) THEN deref(r, r.value.changes)
        ELSE [r EXCEPT !.value = tree_new])

\* _rebuild_index: self._manifest, then self._changes
rebuild_index(x, head) ==
    Let(last_manifest(x, head), LAMBDA r1 :
    Let(last_changeset(r1, head), LAMBDA r2 :
        [m |-> x.m, c |-> r2.c, manifest |-> r1.value, changes |-> r2.value,
         err |-> IF r1.err # "" THEN r1.err ELSE r2.err]))

(***************************************************************************)
(* repo.py: references for the values of a delta.  A delta is the list of  *)
(* its items in the iteration order of the dict.                           *)
(***************************************************************************)
\* vmap[id(item[1])] = item: a later item with the same id replaces this one
mref_in_vmap(pairs, i) ==
    /\ ~isReference(pairs[i][2])
    /\ \A j \in (i + 1) .. Len(pairs) :
           isReference(pairs[j][2]) \/ pairs[j][2].id # pairs[i][2].id

RECURSIVE mref_vmap(_, _)
\* the items left in vmap, from item i on
mref_vmap(pairs, i) ==
    IF i > Len(pairs) THEN <<>>
    ELSE (IF mref_in_vmap(pairs, i) THEN <<pairs[i]>> ELSE <<>>)
         \o mref_vmap(pairs, i + 1)

isReferenceItem(item) == isReference(item[2])

mref(x, pairs) ==
    Let(mref_vmap(pairs, 1), LAMBDA vmap :
    Let(static_mstore(x.m, [i \in 1 .. Len(vmap) |-> vmap[i][2]]), LAMBDA r :
        [m |-> r.m, c |-> x.c, err |-> r.err,
         updates |-> SelectSeq(pairs, isReferenceItem)
                     \o [i \in 1 .. Len(r.pairs) |->
                            <<vmap[i][1], sref(r.pairs[i][1])>>]]))

RECURSIVE make_changeset_loop(_, _, _)
make_changeset_loop(manifest, changes, updates) ==
    IF updates = <<>> THEN changes
    ELSE LET key == Head(updates)[1]
             r == Head(updates)[2]
         IN  make_changeset_loop(manifest,
                 IF r = Deleted /\ ~tree_contains(manifest, key)
                 THEN tree_pop(changes, key)
                 ELSE tree_setitem(changes, key, r),
                 Tail(updates))

make_changeset(manifest, changes, updates) ==
    make_changeset_loop(manifest, tree_copy(changes), updates)

\* what make_changeset raises: changes.copy() of a value that is no tree is
\* an AttributeError, key not in manifest of such a value a TypeError
make_changeset_raises(manifest, changes, updates) ==
    IF ~isTree(changes) THEN "AttributeError"
    ELSE IF ~isTree(manifest)
            /\ \E i \in 1 .. Len(updates) : updates[i][2] = Deleted
    THEN "TypeError"
    ELSE ""

RECURSIVE make_manifest_loop(_, _)
\* del manifest[key] is a KeyError when the key is missing
make_manifest_loop(manifest, items) ==
    IF items = <<>> THEN [value |-> manifest, err |-> ""]
    ELSE LET key == Head(items)[1]
             r == Head(items)[2]
         IN  IF r = Deleted
             THEN IF tree_contains(manifest, key)
                  THEN make_manifest_loop(tree_delitem(manifest, key), Tail(items))
                  ELSE [value |-> manifest, err |-> "KeyError"]
             ELSE make_manifest_loop(tree_setitem(manifest, key, r), Tail(items))

make_manifest(manifest, changes, updates) ==
    make_manifest_loop(tree_copy(manifest),
                       tree_iteritems(make_changeset(manifest, changes, updates)))

\* raise: the stores as they are, no value
failed(x, err) == [m |-> x.m, c |-> x.c, value |-> Undefined, err |-> err]

\* a next_checkpoint that takes the place of the last checkpoint
next_checkpoint_in_place(x, head, when, changes) ==
    Let(last_checkpoint(x, head), LAMBDA r :
        IF r.err # "" THEN failed(r, r.err)
        ELSE IF tree_len(changes) = 0 THEN r
        ELSE IF ~truthy(r.value) THEN failed(r, "AttributeError")
        ELSE make_checkpoint(r, when, "", changes, r.value.commits, r.value.prev))

next_checkpoint(x, head, when, changes) ==
    Let(last_checkpoint(x, head), LAMBDA r :
        IF r.err # "" THEN failed(r, r.err)
        ELSE IF tree_len(changes) = 0 THEN r
        ELSE IF ~truthy(r.value) THEN failed(r, "AttributeError")
        ELSE make_checkpoint(r, when, "", changes, r.value.commits, <<r.value>>))

amend_checkpoint(x, head, when, changes) ==
    Let(last_checkpoint(x, head), LAMBDA r :
        IF r.err # "" THEN failed(r, r.err)
        ELSE IF tree_len(changes) = 0 THEN r
        ELSE IF ~truthy(r.value) THEN failed(r, "AttributeError")
        ELSE make_checkpoint(r, when, "", changes, r.value.commits, r.value.prev))

next_commit(x, head, when, changes) ==
    Let(last_checkpoint(x, head), LAMBDA r :
        IF r.err # "" THEN failed(r, r.err)
        ELSE IF ~truthy(r.value) THEN failed(r, "AttributeError")
        ELSE make_commit(r, when, "", changes, r.value.commits))

(***************************************************************************)
(* repo.py: the zipper.  zs is the zipper object: head, _manifest and      *)
(* _changes (None before the first open), objects the static store         *)
(* _objects; _state is the prefixed store with prefix "" over the backing  *)
(* store m.  _refs is working(zs.changes, zs.manifest).                    *)
(***************************************************************************)
zipper_new == [head |-> None, manifest |-> None, changes |-> None,
               objects |-> static_new]

is_open(zs) == zs.head # None

zipper_amend(m, zs, delta, when) ==
    Let(mref([m |-> m, c |-> zs.objects], delta), LAMBDA r :
        IF r.err # "" THEN failed(r, r.err)
        ELSE IF make_changeset_raises(zs.manifest, zs.changes, r.updates) # ""
        THEN failed(r, make_changeset_raises(zs.manifest, zs.changes, r.updates))
        ELSE amend_checkpoint(r, zs.head, when,
                              make_changeset(zs.manifest, zs.changes, r.updates)))

zipper_checkpoint(m, zs, delta, when) ==
    Let(mref([m |-> m, c |-> zs.objects], delta), LAMBDA r :
        IF r.err # "" THEN failed(r, r.err)
        ELSE IF make_changeset_raises(zs.manifest, zs.changes, r.updates) # ""
        THEN failed(r, make_changeset_raises(zs.manifest, zs.changes, r.updates))
        ELSE next_checkpoint(r, zs.head, when,
                             make_changeset(zs.manifest, zs.changes, r.updates)))

\* commit: when is now() for the commit, when2 now() for the checkpoint
zipper_commit(m, zs, delta, when, when2) ==
    Let(mref([m |-> m, c |-> zs.objects], delta), LAMBDA r :
        IF r.err # "" THEN failed(r, r.err)
        ELSE IF make_changeset_raises(zs.manifest, zs.changes, r.updates) # ""
        THEN failed(r, make_changeset_raises(zs.manifest, zs.changes, r.updates))
        ELSE IF ~isTree(zs.manifest) THEN failed(r, "AttributeError")
        ELSE Let(make_manifest(zs.manifest, zs.changes, r.updates), LAMBDA mf :
                 IF mf.err # "" THEN failed(r, mf.err)
                 ELSE Let(next_commit(r, zs.head, when, mf.value), LAMBDA cm :
                          IF cm.err # "" THEN failed(cm, cm.err)
                          ELSE empty_checkpoint(cm, when2, cm.value))))

\* zipper.get: _address, then _get
zipper_get(m, zs, key) ==
    LET probe == working_get(zs.changes, zs.manifest, key)
    IN  IF ~truthy(probe) THEN [c |-> zs.objects, value |-> Undefined, err |-> ""]
        ELSE static_get(m, zs.objects, probe.address)

\* zipper.items: amap[r.address] = k keeps, for every address, the last key
\* of the working view that refers to it
zipper_items(m, zs) ==
    LET refs == working_iteritems(zs.changes, zs.manifest)
        kept == { i \in 1 .. Len(refs) :
                    \A j \in (i + 1) .. Len(refs) : refs[j][2] # refs[i][2] }
    IN  [k \in { refs[i][1] : i \in kept } |->
            static_get(m, zs.objects,
                       working_get(zs.changes, zs.manifest, k).address).value]

\* zipper.mget(keys): a pair (key, Undefined) for every key without an
\* address, then one pair for every address of amap, under the last key
\* entered for it (the pairs of amap are listed in the order of the keys)
zipper_mget(m, zs, keys) ==
    LET probe(i) == working_get(zs.changes, zs.manifest, keys[i])
        idx == [i \in 1 .. Len(keys) |-> i]
        nokey(i) == ~truthy(probe(i))
        inmap(i) == truthy(probe(i))
                    /\ \A j \in (i + 1) .. Len(keys) : probe(j) # probe(i)
        und == SelectSeq(idx, nokey)
        kept == SelectSeq(idx, inmap)
    IN  [i \in 1 .. Len(und) |-> <<keys[und[i]], Undefined>>]
        \o [i \in 1 .. Len(kept) |->
               <<keys[kept[i]],
                 static_get(m, zs.objects, probe(kept[i]).address).value>>]

\* what the static store of a zipper returns for an address (static.get
\* without the cache update)
peek(m, zs, address) == static_get(m, zs.objects, address).value

\* mderef: the (ref, value) pairs of a list of references
mderef(m, zs, refs) ==
    [i \in 1 .. Len(refs) |-> <<refs[i], peek(m, zs, refs[i].address)>>]

RECURSIVE ancestors_loop(_, _, _, _)
\* ancestors: breadth first over the prev lists; a reference whose object is
\* missing (Undefined, where Python raises on commit.prev) ends the walk
\* along it
ancestors_loop(m, zs, queue, visited) ==
    IF queue = <<>> THEN <<>>
    ELSE LET r == Head(queue)[1]
             commit == Head(queue)[2]
         IN  IF r.address \in visited \/ ~truthy(commit)
             THEN ancestors_loop(m, zs, Tail(queue), visited)
             ELSE <<Head(queue)>>
                  \o ancestors_loop(m, zs, Tail(queue) \o mderef(m, zs, commit.prev),
                                    visited \cup {r.address})

ancestors(m, zs, refs) == ancestors_loop(m, zs, mderef(m, zs, refs), {})

\* checkpoints(zs): the checkpoints since the last commit
checkpoints(m, zs) == ancestors(m, zs, <<zs.head>>)

\* commits(zs): the commit history
commits(m, zs) ==
    LET check == peek(m, zs, zs.head.address)
    IN  IF ~hasCommits(check) THEN <<>> ELSE ancestors(m, zs, check.commits)

(***************************************************************************)
(* The state: one memory store shared by the zippers.                      *)
(*   mem        the memory store                                           *)
(*   zs[z]      the zipper objects                                         *)
(*   pc[z]      where zipper z is in transactionally(): "idle", "begun"    *)
(*              (after begin_transaction), "built" (after proc(args...))   *)
(*   mark[z]    the (head, token) pair begin_transaction returned          *)
(*   job[z]     the arguments of the running call: proc and delta          *)
(*   cand[z]    what proc returned                                         *)
(*   res[z]     how the latest transactionally() of z returned: r the      *)
(*              result, proc its procedure, keys the keys of its delta,    *)
(*              changes whether proc built a changeset with items, stale   *)
(*              whether begin_transaction read a HEAD that was not the     *)
(*              zipper's head, retry whether the call before it raised     *)
(*              TransactionFailed with the same delta, winner the HEAD     *)
(*              that call lost to                                          *)
(*   lost[z]    after TransactionFailed: the delta, and the stored HEAD    *)
(*   overlap[z] the zippers whose latest transaction ran while the latest  *)
(*              transaction of z did                                       *)
(*   last       the latest call                                            *)
(*   clock      the time now() returns                                     *)
(*   ntx, nlife count the calls that MaxTx and MaxLife bound               *)
(*   fs         a directory with fsdir stores opened on it (see fsdir)     *)
(*   wk         the latest call on a working view or of tree_merge, with   *)
(*              its arguments and what it returned                         *)
(*   st         a backing store under test, with the latest call on it     *)
(***************************************************************************)
VARIABLES mem, zs, pc, mark, job, cand, res, lost, overlap, last, clock, ntx, nlife,
          fs, wk, st

vars == <<mem, zs, pc, mark, job, cand, res, lost, overlap, last, clock, ntx, nlife,
          fs, wk, st>>

\* no token held
Unheld == [type |-> "unheld"]

Writers == {1, 2, 3}
Stores == {1, 2}

\* no backing store under test yet
st_new == [s |-> None, n |-> 0, done |-> [op |-> "new"]]

\* no call on a working view yet
wk_new == [op |-> "new"]

\* two fsdir stores, opened on one empty directory
fs_new == [dir |-> EmptyFcn, cas |-> [i \in Stores |-> EmptyFcn],
           held |-> [w \in Writers |-> Unheld], seen |-> [w \in Writers |-> 0],
           writes |-> 0, done |-> [op |-> "open", w |-> 0, ok |-> TRUE]]

Procs == {"amend", "checkpoint", "commit"}

DeltaValues == Objs \cup {Deleted}

\* the lists of two items over different keys
Pairs2 == { <<<<ks[1], v1>>, <<ks[2], v2>>>> :
              ks \in { p \in Keys \X Keys : p[1] # p[2] },
              v1 \in DeltaValues, v2 \in DeltaValues }

\* The deltas: at most one item per key.  The iteration order of the dict
\* shows only when two items hold the same object, so the other deltas are
\* listed in key order alone.
Deltas ==
    {<<>>}
    \cup { <<<<k, v>>>> : k \in Keys, v \in DeltaValues }
    \cup { d \in Pairs2 : d[1][1] < d[2][1] \/ (d[1][2] = d[2][2] /\ d[1][2] # Deleted) }

NoJob == [proc |-> "", delta |-> <<>>]
NoMark == [head |-> None, token |-> None]
NoRes == [r |-> "", proc |-> "", keys |-> {}, changes |-> FALSE, stale |-> FALSE,
          retry |-> FALSE, winner |-> None]
NoLost == [delta |-> <<>>, winner |-> None]

delta_keys(delta) == { delta[i][1] : i \in 1 .. Len(delta) }

\* the sref stored under HEAD (prefixed.get), Undefined when there is none
stored_head(m) ==
    IF HeadKey \in DOMAIN m.data THEN loads_binary(m.data[HeadKey]) ELSE Undefined

\* zipper._open: self._state.open(), self._objects.open()
zipper_open(m, c) ==
    [m |-> memory_open(m),
     c |-> IF ~c.open THEN [open |-> TRUE, map |-> EmptyFcn] ELSE c]

\* _move_head
move_head(x, z, head) ==
    IF head # z.head
    THEN Let(rebuild_index(x, head), LAMBDA r :
             [head |-> head, manifest |-> r.manifest, changes |-> r.changes,
              objects |-> r.c])
    ELSE [z EXCEPT !.objects = x.c]

\* zipper.create, for a zipper that is not open
zipper_create(m, z, when) ==
    Let(zipper_open(m, z.objects), LAMBDA o :
    Let(empty_commit(o, when), LAMBDA cm :
    Let(empty_checkpoint(cm, when, cm.value), LAMBDA ck :
    Let(refput(ck, ck.value), LAMBDA hd :
    Let(memory_add(hd.m, HeadKey, dumps_binary(hd.ref)), LAMBDA ad :
        [m |-> ad.m, zs |-> [z EXCEPT !.objects = hd.c],
         r |-> IF ad.err = "" THEN "ok" ELSE "RepoError"])))))

\* zipper.open, for a zipper that is not open
zipper_do_open(m, z) ==
    Let(zipper_open(m, z.objects), LAMBDA o :
    Let(memory_get(o.m, HeadKey), LAMBDA data :
        IF data = Undefined
        THEN [m |-> o.m, zs |-> [z EXCEPT !.objects = o.c], r |-> "RepoError"]
        ELSE [m |-> o.m,
              zs |-> move_head(o, [z EXCEPT !.objects = o.c], loads_binary(data)),
              r |-> "ok"]))

\* zipper.close on an open zipper: self._state.close() closes the backing
\* store, self._objects.close() drops the cache
zipper_close(z) == [z EXCEPT !.head = None, !.objects = static_new]

\* end_transaction((head, token), check)
\* an end_transaction that moves the head before the cas on HEAD
end_transaction_head_first(m, z, mk, check) ==
    IF ~isCheckpoint(check)
    THEN [m |-> m, zs |-> z, r |-> "TransactionError"]
    ELSE Let(refput([m |-> m, c |-> z.objects], check), LAMBDA p :
         Let(memory_cas(p.m, HeadKey, dumps_binary(p.ref), mk.token), LAMBDA cs :
             IF p.err # ""
             THEN [m |-> m, zs |-> z, r |-> p.err]
             ELSE IF p.ref = mk.head
             THEN [m |-> p.m, zs |-> [z EXCEPT !.objects = p.c], r |-> "unchanged"]
             ELSE IF cs.err = "NotStored"
             THEN [m |-> p.m, zs |-> move_head([m |-> p.m, c |-> p.c], z, p.ref),
                   r |-> "TransactionFailed"]
             ELSE IF cs.err # ""
             THEN [m |-> p.m, zs |-> [z EXCEPT !.objects = p.c], r |-> cs.err]
             ELSE [m |-> cs.m, zs |-> move_head([m |-> cs.m, c |-> p.c], z, p.ref),
                   r |-> "ok"]))

end_transaction(m, z, mk, check) ==
    IF ~isCheckpoint(check)
    THEN [m |-> m, zs |-> z, r |-> "TransactionError"]
    ELSE Let(refput([m |-> m, c |-> z.objects], check), LAMBDA p :
         Let(memory_cas(p.m, HeadKey, dumps_binary(p.ref), mk.token), LAMBDA cs :
             IF p.err # ""
             THEN [m |-> m, zs |-> z, r |-> p.err]
             ELSE IF p.ref = mk.head
             THEN [m |-> p.m, zs |-> [z EXCEPT !.objects = p.c], r |-> "unchanged"]
             ELSE IF cs.err = "NotStored"
             THEN [m |-> p.m, zs |-> [z EXCEPT !.objects = p.c],
                   r |-> "TransactionFailed"]
             ELSE IF cs.err # ""
             THEN [m |-> p.m, zs |-> [z EXCEPT !.objects = p.c], r |-> cs.err]
             ELSE [m |-> cs.m, zs |-> move_head([m |-> cs.m, c |-> p.c], z, p.ref),
                   r |-> "ok"]))

\* the changeset amend and checkpoint build from a delta
built_changes(m, z, delta) ==
    make_changeset(z.manifest, z.changes,
                   mref([m |-> m, c |-> z.objects], delta).updates)

(***************************************************************************)
(* The steps.                                                              *)
(***************************************************************************)
\* a store, not yet opened, and two zippers made over it
Init ==
    /\ mem = memory_new
    /\ zs = [z \in Zippers |-> zipper_new]
    /\ pc = [z \in Zippers |-> "idle"]
    /\ mark = [z \in Zippers |-> NoMark]
    /\ job = [z \in Zippers |-> NoJob]
    /\ cand = [z \in Zippers |-> None]
    /\ res = [z \in Zippers |-> NoRes]
    /\ lost = [z \in Zippers |-> NoLost]
    /\ overlap = [z \in Zippers |-> {}]
    /\ last = "new"
    /\ clock = 0
    /\ ntx = 0
    /\ nlife = 0
    /\ fs = fs_new
    /\ wk = wk_new
    /\ st = st_new

\* zipper.create
Create(z) ==
    /\ pc[z] = "idle"
    /\ ~is_open(zs[z])
    /\ UNCHANGED <<pc, mark, job, cand, res, lost, overlap, clock, ntx, nlife,
               fs, wk, st>>
    /\ \E r \in {zipper_create(mem, zs[z], clock)} :
           /\ last' = (IF r.r = "ok" THEN "create" ELSE "create raised")
           /\ mem' = r.m
           /\ zs' = [zs EXCEPT ![z] = r.zs]

\* zipper.open
Open(z) ==
    /\ pc[z] = "idle"
    /\ ~is_open(zs[z])
    /\ last' = "open"
    /\ UNCHANGED <<pc, mark, job, cand, res, lost, overlap, clock, ntx, nlife,
               fs, wk, st>>
    /\ \E r \in {zipper_do_open(mem, zs[z])} :
           /\ mem' = r.m
           /\ zs' = [zs EXCEPT ![z] = r.zs]

\* zipper.close
Close(z) ==
    /\ pc[z] = "idle"
    /\ is_open(zs[z])
    /\ nlife < MaxLife
    /\ nlife' = nlife + 1
    /\ last' = "close"
    /\ UNCHANGED <<pc, mark, job, cand, res, lost, overlap, clock, ntx,
               fs, wk, st>>
    /\ mem' = memory_close(mem)
    /\ zs' = [zs EXCEPT ![z] = zipper_close(zs[z])]

\* zipper.destroy: self._state.delete(self.HEAD), then self.close()
Destroy(z) ==
    /\ pc[z] = "idle"
    /\ nlife < MaxLife
    /\ nlife' = nlife + 1
    /\ last' = "destroy"
    /\ UNCHANGED <<pc, mark, job, cand, res, lost, overlap, clock, ntx,
               fs, wk, st>>
    /\ \E d \in {memory_delete(mem, HeadKey)} :
           IF d.err # ""
           THEN UNCHANGED <<mem, zs>>
           ELSE IF is_open(zs[z])
           THEN /\ mem' = memory_close(d.m)
                /\ zs' = [zs EXCEPT ![z] = zipper_close(zs[z])]
           ELSE /\ mem' = d.m
                /\ UNCHANGED zs

\* transactionally, first step: self.begin_transaction(); max bounds the
\* number of transactions
BeginStep(z, max) ==
    /\ pc[z] = "idle"
    /\ is_open(zs[z])
    /\ ntx < max
    /\ ntx' = ntx + 1
    /\ last' = "begin"
    /\ UNCHANGED <<zs, job, cand, lost, clock, nlife,
               fs, wk, st>>
    /\ \E r \in {memory_gets(mem, HeadKey)} :
           /\ mem' = r.m
           /\ IF r.err # ""
              THEN /\ res' = [res EXCEPT ![z] = [NoRes EXCEPT !.r = r.err]]
                   /\ UNCHANGED <<pc, mark, overlap>>
              ELSE /\ res' = [res EXCEPT ![z] = NoRes]
                   /\ pc' = [pc EXCEPT ![z] = "begun"]
                   /\ mark' = [mark EXCEPT ![z] =
                          [head |-> IF r.value = Undefined THEN Undefined
                                    ELSE loads_binary(r.value),
                           token |-> r.token]]
                   /\ overlap' = [y \in Zippers |->
                          IF y = z THEN { w \in Zippers \ {z} : pc[w] # "idle" }
                          ELSE IF pc[y] # "idle" THEN overlap[y] \cup {z}
                          ELSE overlap[y] \ {z}]

Begin(z) == BeginStep(z, MaxTx)

\* proc(args...): proc is one of the zipper's amend, checkpoint and commit
\* a call that makes its checkpoint the HEAD itself
zipper_call_moving_head(m, z, proc, delta, when) ==
    Let(CASE proc = "amend" -> zipper_amend(m, z, delta, when)
          [] proc = "checkpoint" -> zipper_checkpoint(m, z, delta, when)
          [] proc = "commit" -> zipper_commit(m, z, delta, when, when),
        LAMBDA r :
            IF r.err # "" THEN r
            ELSE Let(refput(r, r.value), LAMBDA p :
                     [m |-> memory_set(p.m, HeadKey, dumps_binary(p.ref)),
                      c |-> p.c, value |-> r.value, err |-> ""]))

zipper_call(m, z, proc, delta, when) ==
    CASE proc = "amend" -> zipper_amend(m, z, delta, when)
      [] proc = "checkpoint" -> zipper_checkpoint(m, z, delta, when)
      [] proc = "commit" -> zipper_commit(m, z, delta, when, when)

\* transactionally, second step: proc(args...)
Mutate(z, proc, delta) ==
    /\ pc[z] = "begun"
    /\ last' = "proc"
    /\ UNCHANGED <<lost, overlap, clock, ntx, nlife,
               fs, wk, st>>
    /\ \E r \in {zipper_call(mem, zs[z], proc, delta, clock)} :
           /\ mem' = r.m
           /\ zs' = [zs EXCEPT ![z].objects = r.c]
           /\ IF r.err # ""
              THEN /\ res' = [res EXCEPT ![z] =
                         [NoRes EXCEPT !.r = r.err, !.proc = proc,
                                       !.keys = delta_keys(delta)]]
                   /\ pc' = [pc EXCEPT ![z] = "idle"]
                   /\ mark' = [mark EXCEPT ![z] = NoMark]
                   /\ UNCHANGED <<cand, job>>
              ELSE /\ pc' = [pc EXCEPT ![z] = "built"]
                   /\ cand' = [cand EXCEPT ![z] = r.value]
                   /\ job' = [job EXCEPT ![z] = [proc |-> proc, delta |-> delta]]
                   /\ UNCHANGED <<res, mark>>

\* transactionally, last step: self.end_transaction(mark, check)
End(z) ==
    /\ pc[z] = "built"
    /\ last' = "end"
    /\ UNCHANGED <<overlap, clock, ntx, nlife,
               fs, wk, st>>
    /\ \E e \in {end_transaction(mem, zs[z], mark[z], cand[z])} :
           /\ mem' = e.m
           /\ zs' = [zs EXCEPT ![z] = e.zs]
           /\ res' = [res EXCEPT ![z] =
                  [r |-> e.r, proc |-> job[z].proc, keys |-> delta_keys(job[z].delta),
                   changes |-> job[z].proc = "commit"
                               \/ tree_len(built_changes(mem, zs[z], job[z].delta)) > 0,
                   stale |-> mark[z].head # zs[z].head,
                   retry |-> lost[z].winner # None /\ lost[z].delta = job[z].delta,
                   winner |-> IF lost[z].delta = job[z].delta THEN lost[z].winner
                              ELSE None]]
           /\ lost' = [lost EXCEPT ![z] =
                  IF e.r = "TransactionFailed"
                  THEN [delta |-> job[z].delta, winner |-> stored_head(mem)]
                  ELSE NoLost]
    /\ pc' = [pc EXCEPT ![z] = "idle"]
    /\ cand' = [cand EXCEPT ![z] = None]
    /\ job' = [job EXCEPT ![z] = NoJob]
    /\ mark' = [mark EXCEPT ![z] = NoMark]

\* time passes: now() is time.time()
Tick ==
    /\ clock < MaxTime
    /\ clock' = clock + 1
    /\ UNCHANGED <<mem, zs, pc, mark, job, cand, res, lost, overlap, last, ntx, nlife,
               fs, wk, st>>

Transaction ==
    \/ \E z \in Zippers : Begin(z)
    \/ \E z \in Zippers, p \in Procs, d \in Deltas : Mutate(z, p, d)
    \/ \E z \in Zippers : End(z)
    \/ Tick

\* Two zippers open over one store with a fresh repository in it:
\*   zipper(s).create().open() and zipper(s).open()
Created == zipper_create(memory_new, zipper_new, 0)
Opened1 == zipper_do_open(Created.m, Created.zs)
Opened2 == zipper_do_open(Opened1.m, zipper_new)

InitOpen ==
    /\ mem = Opened2.m
    /\ zs = [z \in Zippers |-> IF z = 1 THEN Opened1.zs ELSE Opened2.zs]
    /\ pc = [z \in Zippers |-> "idle"]
    /\ mark = [z \in Zippers |-> NoMark]
    /\ job = [z \in Zippers |-> NoJob]
    /\ cand = [z \in Zippers |-> None]
    /\ res = [z \in Zippers |-> NoRes]
    /\ lost = [z \in Zippers |-> NoLost]
    /\ overlap = [z \in Zippers |-> {}]
    /\ last = "open"
    /\ clock = 0
    /\ ntx = 0
    /\ nlife = 0
    /\ fs = fs_new
    /\ wk = wk_new
    /\ st = st_new

Next == Transaction

\* the transactions of two open zippers
Spec == InitOpen /\ [][Next]_vars

TypeOK ==
    /\ pc \in [Zippers -> {"idle", "begun", "built"}]
    /\ ntx \in 0 .. MaxTx
    /\ nlife \in 0 .. MaxLife

(***************************************************************************)
(* The retry of a lost transaction needs three transactions: SpecRetry     *)
(* runs up to MaxRetry of them, each a checkpoint of one key.              *)
(***************************************************************************)
MaxRetry == 3

RetryDeltas == { <<<<1, CHOOSE o \in Objs : o.id = 1>>>>,
                 <<<<2, CHOOSE o \in Objs : o.id = 2>>>> }

BeginRetry(z) == BeginStep(z, MaxRetry)

MutateRetry(z) == \E d \in RetryDeltas : Mutate(z, "checkpoint", d)

NextRetry ==
    \/ \E z \in Zippers : BeginRetry(z)
    \/ \E z \in Zippers : MutateRetry(z)
    \/ \E z \in Zippers : End(z)
    \/ Tick

SpecRetry == InitOpen /\ [][NextRetry]_vars

(***************************************************************************)
(* Transactions of two zippers on one HEAD.                                *)
(***************************************************************************)
\* the latest transactions of y and z have both returned, and each ran
\* while the other did
Overlapped(y, z) ==
    /\ y # z
    /\ pc[y] = "idle" /\ pc[z] = "idle"
    /\ res[y].r # "" /\ res[z].r # ""
    /\ y \in overlap[z] /\ z \in overlap[y]

OneWins(y, z) ==
    \/ res[y].r = "ok" /\ res[z].r = "TransactionFailed"
    \/ res[z].r = "ok" /\ res[y].r = "TransactionFailed"

\* C1, as claimed: of two overlapping transactionally(checkpoint, delta) with
\* non-empty deltas, started by two zippers on the same HEAD, exactly one
\* succeeds and the other raises TransactionFailed.
C1_NonEmptyDelta ==
    \A y \in Zippers, z \in Zippers :
        ( /\ Overlapped(y, z)
          /\ res[y].proc = "checkpoint" /\ res[z].proc = "checkpoint"
          /\ ~res[y].stale /\ ~res[z].stale
          /\ res[y].keys # {} /\ res[z].keys # {} )
        => OneWins(y, z)

\* C1, amended: of two overlapping transactionally(checkpoint, delta), started
\* by two zippers on the same HEAD with deltas from which checkpoint builds a
\* changeset that is not empty, exactly one succeeds and the other raises
\* TransactionFailed.
C1_OneWinner ==
    \A y \in Zippers, z \in Zippers :
        ( /\ Overlapped(y, z)
          /\ res[y].proc = "checkpoint" /\ res[z].proc = "checkpoint"
          /\ ~res[y].stale /\ ~res[z].stale
          /\ res[y].changes /\ res[z].changes )
        => OneWins(y, z)

C1_Witness ==
    \E y \in Zippers, z \in Zippers :
        /\ Overlapped(y, z)
        /\ res[y].proc = "checkpoint" /\ res[z].proc = "checkpoint"
        /\ ~res[y].stale /\ ~res[z].stale
        /\ res[y].changes /\ res[z].changes
        /\ res[y].r = "ok" /\ res[z].r = "TransactionFailed"

\* the working view of the checkpoint at reference r, as zipper z loads it
view_at(m, z, r) == rebuild_index([m |-> m, c |-> z.objects], r)

\* C2: when a transaction lost the race and the zipper retries with the same
\* delta and succeeds, every key of the winner's working view that the delta
\* does not touch is returned by get() as the winner stored it, and the
\* winner's checkpoint is in the history of the zipper's new head.
C2_RetryKeepsWinner ==
    \A z \in Zippers :
        (pc[z] = "idle" /\ res[z].r = "ok" /\ res[z].retry)
        => LET w == view_at(mem, zs[z], res[z].winner)
               hist == ancestors(mem, zs[z], <<zs[z].head>>)
           IN  /\ \E i \in 1 .. Len(hist) : hist[i][1] = res[z].winner
               /\ \A k \in Keys \ res[z].keys :
                      LET r == working_get(w.changes, w.manifest, k)
                      IN  truthy(r) =>
                              zipper_get(mem, zs[z], k).value
                                  = peek(mem, zs[z], r.address)

\* C3: a transactionally(checkpoint, delta), delta changing some key, of a
\* zipper whose head is not the stored HEAD (another zipper advanced it)
\* raises TransactionFailed.
C3_StaleFails ==
    \A z \in Zippers :
        (pc[z] = "idle" /\ res[z].proc = "checkpoint" /\ res[z].stale
            /\ res[z].changes
            /\ res[z].r \in {"ok", "unchanged", "TransactionFailed"})
        => res[z].r = "TransactionFailed"

(***************************************************************************)
(* What a transaction leaves in the zipper that ran it.                    *)
(***************************************************************************)
\* the step in which transactionally(proc, delta) of z returns
Returns(z, proc) ==
    /\ pc[z] = "built" /\ pc'[z] = "idle"
    /\ job[z].proc = proc

\* it returned True (HEAD moved), or False (the head was HEAD already)
Succeeded(z) == res'[z].r \in {"ok", "unchanged"}

\* == on two values: the identity of an object does not count
py_eq(a, b) == getstate(a) = getstate(b)

\* the working view as a map: the keys that are not deleted, and their refs
working_map(changes, manifest) ==
    [k \in { k \in DOMAIN changes.dict \cup DOMAIN manifest.dict :
                 truthy(working_get(changes, manifest, k)) }
        |-> working_get(changes, manifest, k)]

\* the reference of a value: the address of its serialization
ref_of(v) == IF isReference(v) THEN v ELSE sref(static_dump(v).address)

delta_value(delta, k) == delta[CHOOSE i \in 1 .. Len(delta) : delta[i][1] = k][2]

\* a map overlaid with a delta: the keys set to Deleted are removed
overlay(map, delta) ==
    [k \in { k \in DOMAIN map \cup delta_keys(delta) :
                 k \in delta_keys(delta) => delta_value(delta, k) # Deleted }
        |-> IF k \in delta_keys(delta) THEN ref_of(delta_value(delta, k))
            ELSE map[k]]

get_value(m, z, k) == zipper_get(m, z, k).value

C7_Post(z) ==
    /\ tree_len(zs'[z].changes) = 0
    /\ zs'[z].manifest.dict
           = overlay(working_map(zs[z].changes, zs[z].manifest), job[z].delta)
    /\ \A k \in Keys \ delta_keys(job[z].delta) :
           py_eq(get_value(mem', zs'[z], k), get_value(mem, zs[z], k))
    /\ Len(commits(mem', zs'[z])) = Len(commits(mem, zs[z])) + 1
    /\ last_commit([m |-> mem', c |-> zs'[z].objects], zs'[z].head).value.prev
           = last_checkpoint([m |-> mem, c |-> zs[z].objects], zs[z].head).value.commits
    /\ Len(checkpoints(mem', zs'[z])) = 1

\* C7: after a successful transactionally(commit, delta) the changeset is
\* empty, the manifest is the previous working view overlaid with delta,
\* get(k) is unchanged for every key not in delta, the new commit's prev is
\* the previous commit, commits() is one longer, and checkpoints() has one
\* element.
C7_CommitPost ==
    [][\A z \in Zippers :
          (Returns(z, "commit") /\ res'[z].r = "ok") => C7_Post(z)]_vars

count_checkpoints(m, z) == Len(checkpoints(m, z))

\* C8, as claimed: a successful transactionally(amend, delta) leaves the
\* length of checkpoints(zs) unchanged and a successful
\* transactionally(checkpoint, delta) increases it by exactly one.
C8_CountAlwaysGrows ==
    [][\A z \in Zippers :
          /\ (Returns(z, "amend") /\ Succeeded(z))
                 => count_checkpoints(mem', zs'[z]) = count_checkpoints(mem, zs[z])
          /\ (Returns(z, "checkpoint") /\ Succeeded(z))
                 => count_checkpoints(mem', zs'[z]) = count_checkpoints(mem, zs[z]) + 1
      ]_vars

\* C8, amended: a successful transactionally(amend, delta) leaves the length
\* of checkpoints(zs) unchanged; a successful transactionally(checkpoint,
\* delta) increases it by exactly one when the changeset checkpoint builds
\* has items and end_transaction moves HEAD (returns True), and leaves it
\* unchanged otherwise.
C8_CheckpointCount ==
    [][\A z \in Zippers :
          /\ (Returns(z, "amend") /\ Succeeded(z))
                 => count_checkpoints(mem', zs'[z]) = count_checkpoints(mem, zs[z])
          /\ (Returns(z, "checkpoint") /\ Succeeded(z))
                 => count_checkpoints(mem', zs'[z])
                        = count_checkpoints(mem, zs[z])
                          + (IF res'[z].changes /\ res'[z].r = "ok" THEN 1 ELSE 0)
      ]_vars

\* a checkpoint that grew the history and an amend that did not have returned
C8_Witness ==
    \E y \in Zippers, z \in Zippers :
        /\ pc[y] = "idle" /\ pc[z] = "idle"
        /\ res[y].proc = "checkpoint" /\ res[y].r = "ok" /\ res[y].changes
        /\ count_checkpoints(mem, zs[y]) = 2
        /\ res[z].proc = "amend" /\ res[z].r = "ok" /\ res[z].changes
        /\ count_checkpoints(mem, zs[z]) = 1

\* C9: after transactionally(checkpoint, {k: Deleted}) returns, get(k) is
\* Undefined and k is not in items().
C9_DeletedIsGone ==
    [][\A z \in Zippers : \A k \in Keys :
          (Returns(z, "checkpoint") /\ Succeeded(z)
              /\ job[z].delta = <<<<k, Deleted>>>>)
          => /\ get_value(mem', zs'[z], k) = Undefined
             /\ k \notin DOMAIN zipper_items(mem', zs'[z])]_vars

\* C10: after a successful transactionally(checkpoint, delta), and likewise
\* amend and commit, get(k) returns delta[k] for every key k of delta whose
\* value is not Deleted.
C10_GetReturnsDelta ==
    [][\A z \in Zippers : \A p \in Procs :
          (Returns(z, p) /\ res'[z].r = "ok")
          => \A i \in 1 .. Len(job[z].delta) :
                 job[z].delta[i][2] # Deleted
                 => py_eq(get_value(mem', zs'[z], job[z].delta[i][1]),
                          job[z].delta[i][2])]_vars

(***************************************************************************)
(* Batch reads.                                                            *)
(***************************************************************************)
\* the lists of distinct keys a caller may pass to mget
KeyLists == { <<>>, <<1>>, <<2>>, <<1, 2>>, <<2, 1>> }

\* the number of pairs of the list pairs that are the pair p
count_pairs(pairs, p) == Cardinality({ i \in 1 .. Len(pairs) : pairs[i] = p })

\* C11: items() holds exactly the pairs (k, get(k)) of the keys of the
\* working view, and mget(keys) yields exactly one pair (k, get(k)) for
\* every requested key, also when two keys have the same static address.
C11_BatchReadsAgree ==
    \A z \in Zippers :
        /\ zipper_items(mem, zs[z])
               = [k \in DOMAIN working_map(zs[z].changes, zs[z].manifest)
                     |-> get_value(mem, zs[z], k)]
        /\ \A keys \in KeyLists :
               /\ Len(zipper_mget(mem, zs[z], keys)) = Len(keys)
               /\ \A i \in 1 .. Len(keys) :
                      count_pairs(zipper_mget(mem, zs[z], keys),
                                  <<keys[i], get_value(mem, zs[z], keys[i])>>) = 1

(***************************************************************************)
(* The changeset of a zipper.                                              *)
(***************************************************************************)
\* C14: the changeset of a zipper maps a key to Deleted only if the
\* manifest of the zipper has the key.
C14_DeletedInManifest ==
    \A z \in Zippers :
        (is_open(zs[z]) /\ isTree(zs[z].changes)) =>
            \A k \in DOMAIN zs[z].changes.dict :
                zs[z].changes.dict[k] = Deleted
                => isTree(zs[z].manifest) /\ k \in DOMAIN zs[z].manifest.dict

(***************************************************************************)
(* A mutation and a failed end_transaction leave the zipper as it was.     *)
(***************************************************************************)
\* nothing to see of zipper z has changed: the stored HEAD, the head, the
\* manifest and the changeset of z, get on every key and items
SameView(z) ==
    /\ stored_head(mem') = stored_head(mem)
    /\ zs'[z].head = zs[z].head
    /\ zs'[z].manifest = zs[z].manifest
    /\ zs'[z].changes = zs[z].changes
    /\ \A k \in Keys : get_value(mem', zs'[z], k) = get_value(mem, zs[z], k)
    /\ zipper_items(mem', zs'[z]) = zipper_items(mem, zs[z])

SameStoredView(z) ==
    /\ stored_head(mem') = stored_head(mem)
    /\ zs'[z].head = zs[z].head
    /\ zs'[z].manifest = zs[z].manifest
    /\ zs'[z].changes = zs[z].changes
    /\ \A k \in Keys :
           get_value(mem, zs[z], k) # Undefined
           => get_value(mem', zs'[z], k) = get_value(mem, zs[z], k)
    /\ DOMAIN zipper_items(mem', zs'[z]) = DOMAIN zipper_items(mem, zs[z])
    /\ \A k \in DOMAIN zipper_items(mem, zs[z]) :
           zipper_items(mem, zs[z])[k] # Undefined
           => zipper_items(mem', zs'[z])[k] = zipper_items(mem, zs[z])[k]

MutateGet(z, key) ==
    /\ pc[z] = "begun"
    /\ last' = "proc"
    /\ UNCHANGED <<mem, lost, overlap, clock, ntx, nlife, fs, wk, st>>
    /\ \E r \in {zipper_get(mem, zs[z], key)} :
           /\ zs' = [zs EXCEPT ![z].objects = r.c]
           /\ IF r.err # ""
              THEN /\ res' = [res EXCEPT ![z] =
                         [NoRes EXCEPT !.r = r.err, !.proc = "get"]]
                   /\ pc' = [pc EXCEPT ![z] = "idle"]
                   /\ mark' = [mark EXCEPT ![z] = NoMark]
                   /\ UNCHANGED <<cand, job>>
              ELSE /\ pc' = [pc EXCEPT ![z] = "built"]
                   /\ cand' = [cand EXCEPT ![z] = r.value]
                   /\ job' = [job EXCEPT ![z] = [proc |-> "get", delta |-> <<>>]]
                   /\ UNCHANGED <<res, mark>>

NextError ==
    \/ NextRetry
    \/ \E z \in Zippers, k \in Keys : MutateGet(z, k)

\* the transactions of SpecRetry, and transactions that end in a
\* TransactionError
SpecError == InitOpen /\ [][NextError]_vars

\* C16: when end_transaction raises TransactionError or TransactionFailed,
\* the stored HEAD, the head of the zipper and its working view (manifest
\* and changeset) are as they were before the call.
C16_RaiseKeepsState ==
    [][\A z \in Zippers :
          (pc[z] = "built" /\ pc'[z] = "idle"
              /\ res'[z].r \in {"TransactionError", "TransactionFailed"})
          => /\ stored_head(mem') = stored_head(mem)
             /\ zs'[z].head = zs[z].head
             /\ zs'[z].manifest = zs[z].manifest
             /\ zs'[z].changes = zs[z].changes
             /\ working_map(zs'[z].changes, zs'[z].manifest)
                    = working_map(zs[z].changes, zs[z].manifest)
             /\ \A k \in Keys :
                    get_value(mem', zs'[z], k) = get_value(mem, zs[z], k)]_vars

\* one zipper's end_transaction has raised TransactionFailed, the other's
\* TransactionError
C16_Witness ==
    \E y, z \in Zippers :
        /\ pc[y] = "idle" /\ res[y].r = "TransactionFailed"
        /\ pc[z] = "idle" /\ res[z].r = "TransactionError"

(***************************************************************************)
(* The life of a repository: SpecLife starts from a store that was never   *)
(* opened and adds create, open, close and destroy to the transactions.    *)
(***************************************************************************)
LifeDeltas == { <<>>,
                <<<<1, CHOOSE o \in Objs : o.id = 1>>>>,
                <<<<1, Deleted>>>> }

MutateLife(z) == \E p \in Procs, d \in LifeDeltas : Mutate(z, p, d)

NextLife ==
    \/ \E z \in Zippers : Create(z)
    \/ \E z \in Zippers : Open(z)
    \/ \E z \in Zippers : Close(z)
    \/ \E z \in Zippers : Destroy(z)
    \/ \E z \in Zippers : Begin(z)
    \/ \E z \in Zippers : MutateLife(z)
    \/ \E z \in Zippers : End(z)
    \/ Tick

SpecLife == Init /\ [][NextLife]_vars

\* the object the backing store holds for an address, Undefined for none
stored_object(m, address) ==
    IF static_key(address) \in DOMAIN m.data
    THEN loads_binary(m.data[static_key(address)])
    ELSE Undefined

HeadMoved == stored_head(mem') # stored_head(mem)

CasMovedHead ==
    /\ last' = "end"
    /\ \E z \in Zippers :
           /\ pc[z] = "built" /\ pc'[z] = "idle" /\ res'[z].r = "ok"
           /\ mark[z].token # None
           /\ stored_head(mem') = zs'[z].head

\* C5, as claimed: once HEAD is stored, the value under HEAD changes only by
\* a successful cas of end_transaction with the token of begin_transaction.
C5_OnlyCas ==
    [][(stored_head(mem) # Undefined /\ HeadMoved) => CasMovedHead]_vars

\* C5, amended: the value under HEAD changes only by a successful cas of
\* end_transaction with the token of begin_transaction, by create adding
\* HEAD where there is none, by destroy deleting it, or by close dropping
\* the data of the memory store.
C5_HeadWriters ==
    [][HeadMoved =>
          \/ CasMovedHead
          \/ last' = "create" /\ stored_head(mem) = Undefined
          \/ last' = "destroy" /\ stored_head(mem') = Undefined
          \/ last' = "close" /\ stored_head(mem') = Undefined]_vars

\* a cas of end_transaction has moved HEAD to the head of the zipper
C5_Witness ==
    /\ last = "end"
    /\ \E z \in Zippers :
           /\ pc[z] = "idle" /\ res[z].r = "ok" /\ res[z].changes
           /\ stored_head(mem) = zs[z].head
           /\ stored_object(mem, zs[z].head.address).prev # <<>>

isEmptyTree(t) == truthy(t) /\ isTree(t) /\ tree_len(t) = 0

\* an empty checkpoint whose single commit has an empty manifest
isFreshHead(m, check) ==
    /\ isCheckpoint(check)
    /\ check.prev = <<>>
    /\ isEmptyTree(stored_object(m, check.changes.address))
    /\ Len(check.commits) = 1
    /\ LET commit == stored_object(m, check.commits[1].address)
       IN  /\ truthy(commit) /\ commit.type = "commit"
           /\ commit.prev = <<>>
           /\ isEmptyTree(stored_object(m, commit.changes.address))

\* C6: whenever HEAD exists, the address under HEAD names a checkpoint the
\* static store holds, and the HEAD of a zipper just created is a checkpoint
\* with an empty changeset whose single commit has an empty manifest.
C6_HeadIsCheckpoint ==
    /\ stored_head(mem) # Undefined
           => isCheckpoint(stored_object(mem, stored_head(mem).address))
    /\ last = "create"
           => /\ stored_head(mem) # Undefined
              /\ isFreshHead(mem, stored_object(mem, stored_head(mem).address))

\* HEAD names a stored checkpoint that a transaction made after create
C6_Witness ==
    /\ last = "end"
    /\ stored_head(mem) # Undefined
    /\ isCheckpoint(stored_object(mem, stored_head(mem).address))
    /\ stored_object(mem, stored_head(mem).address).prev # <<>>

(***************************************************************************)
(* The static subspace of the backing store                                *)
(***************************************************************************)
\* the keys of the backing store under the prefix objects/
StaticEntries(m) == { k \in DOMAIN m.data : k.prefix = "objects/" }

\* every entry of the static subspace is stored under the digest of its bytes
DigestOK(m) ==
    \A k \in StaticEntries(m) : k.key = static_digest(m.data[k])

\* the step keeps every entry of the static subspace, bytes included
StaticKept ==
    \A k \in StaticEntries(mem) :
        k \in DOMAIN mem'.data /\ mem'.data[k] = mem.data[k]

MaxWrites == 3
RandMax == 1

store_of(w) == IF w = 3 THEN 2 ELSE 1
FsValues == { [bytes |-> 1], [bytes |-> 2] }
RandBits == 0 .. RandMax

FsStep(fsn, op, w, ok) ==
    fs' = [fsn EXCEPT !.done = [op |-> op, w |-> w, ok |-> ok]]

\* store.add(HEAD, value)
FsAdd(w, value, rnd) ==
    /\ fs.writes < MaxWrites
    /\ UNCHANGED <<mem, zs, pc, mark, job, cand, res, lost, overlap, last, clock, ntx,
                   nlife, wk, st>>
    /\ \E r \in {fsdir_add(fs.dir, fs.cas[store_of(w)], HeadKey, value, rnd)} :
           IF r.err # "" THEN FsStep(fs, "add", w, FALSE)
           ELSE FsStep([fs EXCEPT !.dir = r.dir, !.cas[store_of(w)] = r.cas,
                                  !.writes = @ + 1],
                       "add", w, TRUE)

\* store.gets(HEAD)
FsGets(w, rnd) ==
    /\ fs.held[w] = Unheld
    /\ UNCHANGED <<mem, zs, pc, mark, job, cand, res, lost, overlap, last, clock, ntx,
                   nlife, wk, st>>
    /\ \E r \in {fsdir_gets(fs.dir, fs.cas[store_of(w)], HeadKey, rnd)} :
           FsStep([fs EXCEPT !.cas[store_of(w)] = r.cas, !.held[w] = r.token,
                             !.seen[w] = fs.writes],
                  "gets", w, TRUE)

\* store.cas(HEAD, value, token) with the token gets returned
FsCas(w, value, rnd) ==
    /\ fs.held[w] # Unheld
    /\ fs.writes < MaxWrites
    /\ UNCHANGED <<mem, zs, pc, mark, job, cand, res, lost, overlap, last, clock, ntx,
                   nlife, wk, st>>
    /\ \E r \in {fsdir_cas(fs.dir, fs.cas[store_of(w)], HeadKey, value,
                           fs.held[w], rnd)} :
           IF r.err # "" THEN FsStep([fs EXCEPT !.held[w] = Unheld], "cas", w, FALSE)
           ELSE FsStep([fs EXCEPT !.dir = r.dir, !.cas[store_of(w)] = r.cas,
                                  !.held[w] = Unheld, !.writes = @ + 1],
                       "cas", w, TRUE)

NextFs ==
    \/ \E w \in Writers, v \in FsValues, rnd \in RandBits : FsAdd(w, v, rnd)
    \/ \E w \in Writers, rnd \in RandBits : FsGets(w, rnd)
    \/ \E w \in Writers, v \in FsValues, rnd \in RandBits : FsCas(w, v, rnd)

SpecFs == Init /\ [][NextFs]_vars

\* C4: a cas on HEAD succeeds only if no write to HEAD happened since gets
\* returned the token, for writers on one fsdir store and for writers on two
\* fsdir stores opened on the same directory.
C4_CasSeesLastWrite ==
    [][\A w \in Writers :
          (fs'.done = [op |-> "cas", w |-> w, ok |-> TRUE]
              /\ fs.held[w] # Unheld /\ fs'.writes = fs.writes + 1)
          => fs.seen[w] = fs.writes]_vars

(***************************************************************************)
(* The working view and tree_merge on their own: SpecWorking calls them    *)
(* with the changesets and manifests over the keys 1 .. MaxKey.            *)
(***************************************************************************)
\* the largest key of a tree
MaxKey == 3

TreeKeys == 1 .. MaxKey

\* the static references of the objects
Refs == { sref(static_dump(o).address) : o \in Objs }

RECURSIVE tree_from(_, _)
\* tree(items) for the items of f on the keys ks: the keys are entered one
\* by one, the smallest last
tree_from(f, ks) ==
    IF ks = {} THEN tree_new
    ELSE LET k == CHOOSE k \in ks : \A j \in ks : k <= j
         IN  tree_setitem(tree_from(f, ks \ {k}), k, f[k])

Trees(values) ==
    UNION { { tree_from(f, ks) : f \in [ks -> values] } : ks \in SUBSET TreeKeys }

\* a manifest maps keys to static references, a changeset to static
\* references and Deleted
Manifests == Trees(Refs)
Changesets == Trees(Refs \cup {Deleted})

\* one call in a behaviour
WorkingStep(call) ==
    /\ wk = wk_new
    /\ wk' = call
    /\ UNCHANGED <<mem, zs, pc, mark, job, cand, res, lost, overlap, last, clock,
                   ntx, nlife, fs, st>>

\* working(changes, manifest).get(key)
WorkingGet(changes, manifest, key) ==
    WorkingStep([op |-> "get", changes |-> changes, manifest |-> manifest,
                 key |-> key, value |-> working_get(changes, manifest, key)])

\* list(working(changes, manifest).iteritems())
WorkingIteritems(changes, manifest) ==
    WorkingStep([op |-> "iteritems", changes |-> changes, manifest |-> manifest,
                 items |-> working_iteritems(changes, manifest)])

\* list(tree_merge(mine, yours))
TreeMerge(mine, yours) ==
    WorkingStep([op |-> "tree_merge", mine |-> mine, yours |-> yours,
                 items |-> tree_merge(mine, yours)])

NextWorking ==
    \/ \E c \in Changesets, m \in Manifests, k \in TreeKeys : WorkingGet(c, m, k)
    \/ \E c \in Changesets, m \in Manifests : WorkingIteritems(c, m)
    \/ \E a \in Changesets, b \in Changesets : TreeMerge(a, b)

SpecWorking == Init /\ [][NextWorking]_vars

\* C12: get(k) on a working view is changes[k] when the changeset has k with
\* a reference other than Deleted, Undefined when the changeset has Deleted
\* for k, otherwise manifest[k] when the manifest has k, otherwise
\* Undefined; and iterating the view lists exactly the keys whose get is not
\* Undefined.
C12_WorkingView ==
    /\ wk.op = "get" =>
           wk.value = IF wk.key \in DOMAIN wk.changes.dict
                      THEN IF wk.changes.dict[wk.key] = Deleted THEN Undefined
                           ELSE wk.changes.dict[wk.key]
                      ELSE IF wk.key \in DOMAIN wk.manifest.dict
                      THEN wk.manifest.dict[wk.key]
                      ELSE Undefined
    /\ wk.op = "iteritems" =>
           /\ { wk.items[i][1] : i \in 1 .. Len(wk.items) }
                  = { k \in TreeKeys :
                        working_get(wk.changes, wk.manifest, k) # Undefined }
           /\ \A i, j \in 1 .. Len(wk.items) :
                  wk.items[i][1] = wk.items[j][1] => i = j

\* get on a key that the manifest has and the changeset deletes
C12_Witness ==
    /\ wk.op = "get"
    /\ wk.key \in DOMAIN wk.manifest.dict
    /\ wk.key \in DOMAIN wk.changes.dict
    /\ wk.changes.dict[wk.key] = Deleted
    /\ wk.value = Undefined

\* C13: tree_merge(a, b) yields the pairs of the union of the keys of a and
\* b in ascending key order, each key once, with a's pair for a key of both.
C13_TreeMerge ==
    wk.op = "tree_merge" =>
        /\ { wk.items[i][1] : i \in 1 .. Len(wk.items) }
               = DOMAIN wk.mine.dict \cup DOMAIN wk.yours.dict
        /\ \A i, j \in 1 .. Len(wk.items) :
               i < j => wk.items[i][1] < wk.items[j][1]
        /\ \A i \in 1 .. Len(wk.items) :
               wk.items[i][2] = IF wk.items[i][1] \in DOMAIN wk.mine.dict
                                THEN wk.mine.dict[wk.items[i][1]]
                                ELSE wk.yours.dict[wk.items[i][1]]

\* a merge of two trees that differ on a key of both, each with a key of
\* its own
C13_Witness ==
    /\ wk.op = "tree_merge"
    /\ \E k \in DOMAIN wk.mine.dict \cap DOMAIN wk.yours.dict :
           wk.mine.dict[k] # wk.yours.dict[k]
    /\ DOMAIN wk.mine.dict \ DOMAIN wk.yours.dict # {}
    /\ DOMAIN wk.yours.dict \ DOMAIN wk.mine.dict # {}
    /\ Len(wk.items) = MaxKey

(***************************************************************************)
(* The backing stores on their own: SpecStore opens a memory store, an     *)
(* fsdir store on an empty directory or a prefixed store over a memory     *)
(* store, and makes up to MaxCalls calls on it.                            *)
(*   st.s        the store: kind, m the memory store, dir and cas the      *)
(*               directory and the _cas dict of the fsdir store            *)
(*   st.held[k]  the token of the latest gets(k), Unheld for none          *)
(*   st.wrote[k] whether set, mset, add, replace or cas has written k      *)
(*               since that gets                                           *)
(*   st.n        the number of calls                                       *)
(*   st.done     the latest call: op, arg its arguments, err the exception *)
(*               it raised ("" for none), keys the keys the exception      *)
(*               carries                                                   *)
(***************************************************************************)
\* the number of calls on the store in one behaviour
MaxCalls == 4

StoreKinds == {"memory", "fsdir", "prefixed"}
StoreKeys == {"a", "b"}

\* the values of a store: strings, or objects where a marshaller dumps them
StoreValues(kind) == IF kind = "prefixed" THEN Objs ELSE FsValues

\* the batches of pairs on distinct keys, and of distinct keys
PairLists(kind) ==
    {<<>>}
    \cup { <<<<k, v>>>> : k \in StoreKeys, v \in StoreValues(kind) }
    \cup { <<<<ks[1], v>>, <<ks[2], w>>>> :
             ks \in {<<"a", "b">>, <<"b", "a">>}, v \in StoreValues(kind),
             w \in StoreValues(kind) }

StoreKeyLists == { <<>>, <<"a">>, <<"b">>, <<"a", "b">>, <<"b", "a">> }

\* what getrandbits returns in the calls of _set of one batch
RandLists == { <<r1, r2>> : r1 \in RandBits, r2 \in RandBits }

\* makeStore().open()
store_open(kind) ==
    [kind |-> kind,
     m |-> IF kind = "fsdir" THEN memory_new ELSE memory_open(memory_new),
     dir |-> EmptyFcn, cas |-> EmptyFcn]

\* prefixed._key, _dump and _load of prefixed(state, '', marshall); the other
\* stores take key and value as they are
store_key_of(s, key) == IF s.kind = "prefixed" THEN store_key("", key) ELSE key

store_dump(s, value) == IF s.kind = "prefixed" THEN dumps_binary(value) ELSE value

store_load(s, value) ==
    IF s.kind = "prefixed" /\ value # Undefined THEN loads_binary(value) ELSE value

store_pairs(s, pairs) ==
    [i \in 1 .. Len(pairs) |->
        <<store_key_of(s, pairs[i][1]), store_dump(s, pairs[i][2])>>]

store_keys(s, keys) == [i \in 1 .. Len(keys) |-> store_key_of(s, keys[i])]

\* the store after a call on its memory store, or on its directory
in_mem(s, r) ==
    [s |-> [s EXCEPT !.m = r.m], err |-> r.err,
     keys |-> IF "keys" \in DOMAIN r THEN r.keys ELSE {}]

in_dir(s, r) ==
    [s |-> [s EXCEPT !.dir = r.dir, !.cas = r.cas], err |-> r.err,
     keys |-> IF "keys" \in DOMAIN r THEN r.keys ELSE {}]

store_get(s, key) ==
    IF s.kind = "fsdir" THEN fsdir_get(s.dir, key)
    ELSE store_load(s, memory_get(s.m, store_key_of(s, key)))

store_gets(s, key, rnd) ==
    IF s.kind = "fsdir"
    THEN Let(fsdir_gets(s.dir, s.cas, key, rnd), LAMBDA r :
             [s |-> [s EXCEPT !.cas = r.cas], token |-> r.token])
    ELSE Let(memory_gets(s.m, store_key_of(s, key)), LAMBDA r :
             [s |-> [s EXCEPT !.m = r.m], token |-> r.token])

store_set(s, key, value, rnd) ==
    IF s.kind = "fsdir"
    THEN in_dir(s, fsdir_set(s.dir, s.cas, key, value, rnd) @@ [err |-> ""])
    ELSE in_mem(s, [m |-> memory_set(s.m, store_key_of(s, key),
                                     store_dump(s, value)),
                    err |-> ""])

store_mset(s, pairs, rnds) ==
    IF s.kind = "fsdir"
    THEN in_dir(s, fsdir_mset(s.dir, s.cas, pairs, rnds) @@ [err |-> ""])
    ELSE in_mem(s, [m |-> memory_mset(s.m, store_pairs(s, pairs)), err |-> ""])

store_add(s, key, value, rnd) ==
    IF s.kind = "fsdir" THEN in_dir(s, fsdir_add(s.dir, s.cas, key, value, rnd))
    ELSE in_mem(s, memory_add(s.m, store_key_of(s, key), store_dump(s, value)))

store_madd(s, pairs, rnds) ==
    IF s.kind = "fsdir" THEN in_dir(s, fsdir_madd(s.dir, s.cas, pairs, rnds))
    ELSE in_mem(s, memory_madd(s.m, store_pairs(s, pairs)))

store_replace(s, key, value, rnd) ==
    IF s.kind = "fsdir" THEN in_dir(s, fsdir_replace(s.dir, s.cas, key, value, rnd))
    ELSE in_mem(s, memory_replace(s.m, store_key_of(s, key), store_dump(s, value)))

store_mreplace(s, pairs, rnds) ==
    IF s.kind = "fsdir"
    THEN in_dir(s, fsdir_mreplace(s.dir, s.cas, pairs, rnds[1]))
    ELSE in_mem(s, memory_mreplace(s.m, store_pairs(s, pairs)))

store_cas(s, key, value, token, rnd) ==
    IF s.kind = "fsdir"
    THEN in_dir(s, fsdir_cas(s.dir, s.cas, key, value, token, rnd))
    ELSE in_mem(s, memory_cas(s.m, store_key_of(s, key), store_dump(s, value),
                              token))

store_delete(s, key) ==
    IF s.kind = "fsdir" THEN in_dir(s, fsdir_delete(s.dir, s.cas, key))
    ELSE in_mem(s, memory_delete(s.m, store_key_of(s, key)))

store_mdelete(s, keys) ==
    IF s.kind = "fsdir" THEN in_dir(s, fsdir_mdelete(s.dir, s.cas, keys))
    ELSE in_mem(s, memory_mdelete(s.m, store_keys(s, keys)))

StoreOpen(kind) ==
    /\ st = st_new
    /\ st' = [s |-> store_open(kind), n |-> 0, done |-> [op |-> "open"],
              held |-> [k \in StoreKeys |-> Unheld],
              wrote |-> [k \in StoreKeys |-> FALSE]]
    /\ UNCHANGED <<mem, zs, pc, mark, job, cand, res, lost, overlap, last, clock,
                   ntx, nlife, fs, wk>>

\* a call op(arg) with the outcome r; written are the keys that set, mset,
\* add, replace or cas has written
StoreStep(r, op, arg, written) ==
    /\ st' = [st EXCEPT !.s = r.s, !.n = @ + 1,
                        !.done = [op |-> op, arg |-> arg, err |-> r.err,
                                  keys |-> r.keys],
                        !.wrote = [k \in StoreKeys |-> @[k] \/ k \in written]]
    /\ UNCHANGED <<mem, zs, pc, mark, job, cand, res, lost, overlap, last, clock,
                   ntx, nlife, fs, wk>>

StoreReady == st.s # None /\ st.n < MaxCalls

StoreGets(key, rnd) ==
    /\ StoreReady
    /\ \E r \in {store_gets(st.s, key, rnd)} :
           st' = [st EXCEPT !.s = r.s, !.n = @ + 1,
                            !.done = [op |-> "gets", arg |-> <<key>>, err |-> "",
                                      keys |-> {}],
                            !.held[key] = r.token, !.wrote[key] = FALSE]
    /\ UNCHANGED <<mem, zs, pc, mark, job, cand, res, lost, overlap, last, clock,
                   ntx, nlife, fs, wk>>

StoreSet(key, value, rnd) ==
    /\ StoreReady
    /\ StoreStep(store_set(st.s, key, value, rnd), "set", <<key, value>>, {key})

StoreMset(pairs, rnds) ==
    /\ StoreReady
    /\ StoreStep(store_mset(st.s, pairs, rnds), "mset", pairs,
                 delta_keys(pairs))

StoreAdd(key, value, rnd) ==
    /\ StoreReady
    /\ \E r \in {store_add(st.s, key, value, rnd)} :
           StoreStep(r, "add", <<key, value>>, IF r.err = "" THEN {key} ELSE {})

StoreMadd(pairs, rnds) ==
    /\ StoreReady
    /\ StoreStep(store_madd(st.s, pairs, rnds), "madd", pairs, {})

StoreReplace(key, value, rnd) ==
    /\ StoreReady
    /\ \E r \in {store_replace(st.s, key, value, rnd)} :
           StoreStep(r, "replace", <<key, value>>,
                     IF r.err = "" THEN {key} ELSE {})

StoreMreplace(pairs, rnds) ==
    /\ StoreReady
    /\ StoreStep(store_mreplace(st.s, pairs, rnds), "mreplace", pairs, {})

\* cas with the token of the latest gets(key)
StoreCas(key, value, rnd) ==
    /\ StoreReady
    /\ st.held[key] # Unheld
    /\ \E r \in {store_cas(st.s, key, value, st.held[key], rnd)} :
           StoreStep(r, "cas", <<key, value>>, IF r.err = "" THEN {key} ELSE {})

StoreDelete(key) ==
    /\ StoreReady
    /\ StoreStep(store_delete(st.s, key), "delete", <<key>>, {})

StoreMdelete(keys) ==
    /\ StoreReady
    /\ StoreStep(store_mdelete(st.s, keys), "mdelete", keys, {})

\* the kind of the store, once there is one
StoreKindNow == IF st.s = None THEN {} ELSE {st.s.kind}

NextStore ==
    \/ \E kind \in StoreKinds : StoreOpen(kind)
    \/ \E k \in StoreKeys, rnd \in RandBits : StoreGets(k, rnd)
    \/ \E kind \in StoreKindNow, k \in StoreKeys, rnd \in RandBits :
         \E v \in StoreValues(kind) : StoreSet(k, v, rnd)
    \/ \E kind \in StoreKindNow, k \in StoreKeys, rnd \in RandBits :
         \E v \in StoreValues(kind) : StoreAdd(k, v, rnd)
    \/ \E kind \in StoreKindNow, k \in StoreKeys, rnd \in RandBits :
         \E v \in StoreValues(kind) : StoreReplace(k, v, rnd)
    \/ \E kind \in StoreKindNow, k \in StoreKeys, rnd \in RandBits :
         \E v \in StoreValues(kind) : StoreCas(k, v, rnd)
    \/ \E kind \in StoreKindNow, rnds \in RandLists :
         \E pairs \in PairLists(kind) : StoreMset(pairs, rnds)
    \/ \E kind \in StoreKindNow, rnds \in RandLists :
         \E pairs \in PairLists(kind) : StoreMadd(pairs, rnds)
    \/ \E kind \in StoreKindNow, rnds \in RandLists :
         \E pairs \in PairLists(kind) : StoreMreplace(pairs, rnds)
    \/ \E k \in StoreKeys : StoreDelete(k)
    \/ \E keys \in StoreKeyLists : StoreMdelete(keys)

SpecStore == Init /\ [][NextStore]_vars

(***************************************************************************)
(* Tokens of the memory and fsdir stores                                   *)
(***************************************************************************)
\* the latest call was cas on key, made on a store of one of the kinds
\* while key had been written since the gets that gave the token
StaleCas(kinds, key) ==
    /\ st.s # None
    /\ st.s.kind \in kinds
    /\ st'.n = st.n + 1
    /\ st'.done.op = "cas"
    /\ st'.done.arg[1] = key
    /\ st.wrote[key]

\* C17: in the memory and fsdir stores, after a successful set, mset, add,
\* replace or cas on key k, a cas(k, v, t) with a token t that a gets(k)
\* before that write returned raises NotStored and leaves the value of k
\* as it was.
C17_StaleTokenFails ==
    [][\A key \in StoreKeys :
          StaleCas({"memory", "fsdir"}, key)
          => /\ st'.done.err = "NotStored"
             /\ store_get(st'.s, key) = store_get(st.s, key)]_vars

(***************************************************************************)
(* Two threads on one memory store.  memory.py takes no lock, so a thread  *)
(* may be switched between any two statements of cas and set:              *)
(*   check   if key not in self._cas or self._cas[key] != token: raise     *)
(*   set     self._data[key] = value                                       *)
(*   incr    if key in self._cas: read self._cas[key]                      *)
(*   write   self._cas[key] = the value read + 1                           *)
(* st.th[t] is thread t: pc its position, held[k] the token of its latest  *)
(* gets(k), key, value and token the arguments of its cas, read the        *)
(* counter it read, err the exception of its cas.                          *)
(***************************************************************************)
Threads == {1, 2}

thread_new ==
    [pc |-> "idle", held |-> [k \in StoreKeys |-> Unheld], key |-> "a",
     value |-> None, token |-> None, read |-> 0, err |-> ""]

ThreadsVars ==
    <<mem, zs, pc, mark, job, cand, res, lost, overlap, last, clock, ntx, nlife,
      fs, wk>>

\* setUp: a memory store, opened and populated
ThreadsOpen(va, vb) ==
    /\ st = st_new
    /\ st' = [s |-> [store_open("memory") EXCEPT
                        !.m = memory_mset(@, <<<<"a", va>>, <<"b", vb>>>>)],
              n |-> 0, done |-> [op |-> "open"],
              th |-> [t \in Threads |-> thread_new]]
    /\ UNCHANGED ThreadsVars

ThreadAt(t, at) == st.s # None /\ st.th[t].pc = at

ThreadGets(t, key) ==
    /\ ThreadAt(t, "idle")
    /\ \E r \in {memory_gets(st.s.m, key)} :
           st' = [st EXCEPT !.s.m = r.m, !.th[t].held[key] = r.token]
    /\ UNCHANGED ThreadsVars

\* cas(key, value, token) is called with the token of the thread's gets
ThreadCas(t, key, value) ==
    /\ ThreadAt(t, "idle")
    /\ st.th[t].held[key] # Unheld
    /\ st' = [st EXCEPT !.th[t].pc = "check", !.th[t].key = key,
                        !.th[t].value = value,
                        !.th[t].token = st.th[t].held[key]]
    /\ UNCHANGED ThreadsVars

ThreadCheck(t) ==
    /\ ThreadAt(t, "check")
    /\ LET key == st.th[t].key
       IN  IF key \notin DOMAIN st.s.m.cas
              \/ [tok |-> st.s.m.cas[key]] # st.th[t].token
           THEN st' = [st EXCEPT !.th[t].pc = "done", !.th[t].err = "NotStored"]
           ELSE st' = [st EXCEPT !.th[t].pc = "set"]
    /\ UNCHANGED ThreadsVars

ThreadSetData(t) ==
    /\ ThreadAt(t, "set")
    /\ st' = [st EXCEPT !.th[t].pc = "incr",
                        !.s.m.data[st.th[t].key] = st.th[t].value]
    /\ UNCHANGED ThreadsVars

ThreadReadCas(t) ==
    /\ ThreadAt(t, "incr")
    /\ IF st.th[t].key \in DOMAIN st.s.m.cas
       THEN st' = [st EXCEPT !.th[t].pc = "write",
                             !.th[t].read = st.s.m.cas[st.th[t].key]]
       ELSE st' = [st EXCEPT !.th[t].pc = "done"]
    /\ UNCHANGED ThreadsVars

ThreadWriteCas(t) ==
    /\ ThreadAt(t, "write")
    /\ st' = [st EXCEPT !.th[t].pc = "done",
                        !.s.m.cas[st.th[t].key] = st.th[t].read + 1]
    /\ UNCHANGED ThreadsVars

NextThreads ==
    \/ \E va \in FsValues, vb \in FsValues : ThreadsOpen(va, vb)
    \/ \E t \in Threads, k \in StoreKeys : ThreadGets(t, k)
    \/ \E t \in Threads, k \in StoreKeys, v \in FsValues : ThreadCas(t, k, v)
    \/ \E t \in Threads : ThreadCheck(t)
    \/ \E t \in Threads : ThreadSetData(t)
    \/ \E t \in Threads : ThreadReadCas(t)
    \/ \E t \in Threads : ThreadWriteCas(t)

SpecThreads == Init /\ [][NextThreads]_vars

\* C18: when two threads call cas(k, v1, t) and cas(k, v2, t) on one memory
\* store with the same token t, at most one of the calls succeeds.
C18_OneCasWins ==
    st.s # None
    => \A t1 \in Threads, t2 \in Threads :
           ( /\ t1 # t2
             /\ st.th[t1].pc = "done"
             /\ st.th[t2].pc = "done"
             /\ st.th[t1].key = st.th[t2].key
             /\ st.th[t1].token = st.th[t2].token )
           => ~(st.th[t1].err = "" /\ st.th[t2].err = "")

(***************************************************************************)
(* add, replace and delete of every backing store                          *)
(***************************************************************************)
\* what the store holds: the files of the directory, or the data dict
store_contents(s) == IF s.kind = "fsdir" THEN s.dir ELSE s.m.data

\* the latest call was op(key, ...), made on an open store
StoreCalled(op, key) ==
    /\ st.s # None
    /\ st'.n = st.n + 1
    /\ st'.done.op = op
    /\ st'.done.arg[1] = key

\* the call raised err and left the contents of the store as they were
StoreRaised(err) ==
    /\ st'.done.err = err
    /\ store_contents(st'.s) = store_contents(st.s)

\* the call returned, and get(key) gives value afterwards
StoreReturned(key, value) ==
    /\ st'.done.err = ""
    /\ py_eq(store_get(st'.s, key), value)

BatchCalled(kinds, op) ==
    /\ st.s # None
    /\ st.s.kind \in kinds
    /\ st'.n = st.n + 1
    /\ st'.done.op = op

\* the value a batch of pairs gives to key
batch_value(pairs, key) ==
    pairs[CHOOSE i \in 1 .. Len(pairs) : pairs[i][1] = key][2]

\* the call has written the keys of the batch that are in good (value gives
\* what is read back), left every other key as it was, and raised err with
\* the other keys of the batch, or nothing when there is none
BatchOutcome(batch, good, value(_), err) ==
    /\ \A key \in StoreKeys :
           store_get(st'.s, key) =
               IF key \in batch \cap good THEN value(key)
               ELSE store_get(st.s, key)
    /\ st'.done.err = IF batch \ good # {} THEN err ELSE ""
    /\ st'.done.keys = batch \ good

\* the keys the store holds before the call, and the others
StorePresent == { key \in StoreKeys : store_get(st.s, key) # Undefined }
StoreAbsent == StoreKeys \ StorePresent

BatchWrites(kinds) ==
    /\ BatchCalled(kinds, "madd")
       => BatchOutcome(delta_keys(st'.done.arg), StoreAbsent,
                       LAMBDA key : batch_value(st'.done.arg, key), "NotStored")
    /\ BatchCalled(kinds, "mreplace")
       => BatchOutcome(delta_keys(st'.done.arg), StorePresent,
                       LAMBDA key : batch_value(st'.done.arg, key), "NotStored")
    /\ BatchCalled(kinds, "mdelete")
       => BatchOutcome({ st'.done.arg[i] : i \in 1 .. Len(st'.done.arg) },
                       StorePresent, LAMBDA key : Undefined, "NotFound")

\* C20: madd, mreplace and mdelete of the memory store and of the fsdir
\* store write (or delete) every key of the batch that satisfies the
\* precondition, leave every other key unchanged, raise NotStored or NotFound
\* with exactly the keys that failed, and raise nothing when no key failed.
C20_BatchWrites == [][BatchWrites({"memory", "fsdir"})]_vars

(***************************************************************************)
(* The static store on its own: SpecStatic opens a static store with a     *)
(* cache of CacheSize over a memory store, as store/tests.py TestStatic     *)
(* does, and makes up to MaxCalls calls of get, mget, put and mput on it.   *)
(*   st.s.m, st.s.c   the memory store and the static store                *)
(*   st.missed        the addresses that get or mget has looked up while   *)
(*                    nothing was stored under them                        *)
(*   st.done          the latest call: op, arg, err, and out its result    *)
(***************************************************************************)
\* the cache argument of static(back, marshall, prefix, cache)
CacheSize == 1

\* the values put: two ints and two trees
StaticValues ==
    Objs \cup { tree_update(tree_new, <<<<1, o>>>>) : o \in Objs }

StaticAddresses == { static_dump(v).address : v \in StaticValues }

\* the batches of mget and of mput: up to two distinct elements
StaticLists(S) ==
    {<<>>} \cup { <<x>> : x \in S }
    \cup { p \in { <<x, y>> : x \in S, y \in S } : p[1] # p[2] }

StaticOpen ==
    /\ st = st_new
    /\ st' = [s |-> [kind |-> "static", m |-> memory_open(memory_new),
                     c |-> [open |-> TRUE, map |-> EmptyFcn, size |-> CacheSize]],
              n |-> 0, done |-> [op |-> "open"], missed |-> {}]
    /\ UNCHANGED ThreadsVars

StaticReady == st.s # None /\ st.n < MaxCalls

\* the addresses of need that the backing store does not hold
static_missing(m, need) ==
    { a \in need : memory_get(m, static_key(a)) = Undefined }

StaticGet(address) ==
    /\ StaticReady
    /\ \E r \in {static_get(st.s.m, st.s.c, address)} :
           st' = [st EXCEPT !.s.c = r.c, !.n = @ + 1,
                            !.done = [op |-> "get", arg |-> address,
                                      err |-> r.err, out |-> r.value],
                            !.missed = @ \cup static_missing(st.s.m, {address})]
    /\ UNCHANGED ThreadsVars

StaticMget(addresses) ==
    /\ StaticReady
    /\ \E r \in {static_mget(st.s.m, st.s.c, addresses)} :
           st' = [st EXCEPT !.s.c = r.c, !.n = @ + 1,
                            !.done = [op |-> "mget", arg |-> addresses,
                                      err |-> r.err, out |-> r.pairs],
                            !.missed = @ \cup static_missing(st.s.m,
                                { addresses[i] : i \in 1 .. Len(addresses) })]
    /\ UNCHANGED ThreadsVars

StaticPut(value) ==
    /\ StaticReady
    /\ \E r \in {static_store(st.s.m, st.s.c, value)} :
           st' = [st EXCEPT !.s.m = r.m, !.s.c = r.c, !.n = @ + 1,
                            !.done = [op |-> "put", arg |-> value, err |-> r.err,
                                      out |-> <<r.address, r.value>>]]
    /\ UNCHANGED ThreadsVars

StaticMput(values) ==
    /\ StaticReady
    /\ \E r \in {static_mstore(st.s.m, values)} :
           st' = [st EXCEPT !.s.m = r.m, !.n = @ + 1,
                            !.done = [op |-> "mput", arg |-> values,
                                      err |-> r.err, out |-> r.pairs]]
    /\ UNCHANGED ThreadsVars

NextStatic ==
    \/ StaticOpen
    \/ \E a \in StaticAddresses : StaticGet(a)
    \/ \E addresses \in StaticLists(StaticAddresses) : StaticMget(addresses)
    \/ \E v \in StaticValues : StaticPut(v)
    \/ \E values \in StaticLists(StaticValues) : StaticMput(values)

SpecStatic == Init /\ [][NextStatic]_vars

\* the latest call was op, made on the open static store
StaticCalled(op) ==
    /\ st.s # None
    /\ st'.n = st.n + 1
    /\ st'.done.op = op

\* what get(address) returns in the state after the call
static_get_after(address) == static_get(st'.s.m, st'.s.c, address).value

\* C21: after put(v) returns the address a, get(a) returns v and not
\* Undefined, whatever get, mget, put and mput calls came before, also a
\* get(a) made before the value was stored.
C21_PutThenGet ==
    [][StaticCalled("put")
       => /\ static_get_after(st'.done.out[1]) # Undefined
          /\ py_eq(static_get_after(st'.done.out[1]), st'.done.arg)]_vars

(***************************************************************************)
(* Two writers put into one backing store, each through its own static     *)
(* store object.  put and mput dump their values and call add or madd of   *)
(* the memory store, which tests the key and then sets it; a writer may be *)
(* switched between the two.  st.wr[w] is writer w:                        *)
(*   pc      "idle", "check" (before "if key in self._data"), "set"        *)
(*           (before self.set(key, value)), "return"                       *)
(*   op, arg the call and its values; dumped the (address, data) of each   *)
(*   at      the pair add or madd is at; sets the keys the call has set    *)
(*   out     what the latest call returned, err its exception              *)
(* st.c[w] is the static store object of writer w.                         *)
(***************************************************************************)
writer_new ==
    [pc |-> "idle", op |-> "", arg |-> <<>>, dumped |-> <<>>, at |-> 1,
     sets |-> {}, out |-> <<>>, err |-> ""]

PutOpen ==
    /\ st = st_new
    /\ st' = [s |-> [kind |-> "static", m |-> memory_open(memory_new)],
              c |-> [w \in Threads |->
                        [open |-> TRUE, map |-> EmptyFcn, size |-> CacheSize]],
              wr |-> [w \in Threads |-> writer_new],
              n |-> 0, done |-> [op |-> "open"]]
    /\ UNCHANGED ThreadsVars

WriterAt(w, at) == st.s # None /\ st.wr[w].pc = at

\* put(value) is mput of one value that also caches it; _dump of every value
\* comes before the call of add or madd
PutCall(w, op, values) ==
    /\ WriterAt(w, "idle")
    /\ st.n < MaxCalls
    /\ st' = [st EXCEPT !.n = @ + 1,
                        !.wr[w] = [pc |-> IF values = <<>> THEN "return"
                                          ELSE "check",
                                   op |-> op, arg |-> values,
                                   dumped |-> [i \in 1 .. Len(values) |->
                                                  static_dump(values[i])],
                                   at |-> 1, sets |-> {}, out |-> <<>>,
                                   err |-> ""]]
    /\ UNCHANGED ThreadsVars

\* the pc after the pair at: the next pair, or the return
writer_next(wr) ==
    IF wr.at < Len(wr.dumped) THEN [wr EXCEPT !.pc = "check", !.at = @ + 1]
    ELSE [wr EXCEPT !.pc = "return"]

\* add, madd: if key in self._data (NotStored, which _store and _mstore
\* suppress)
PutCheck(w) ==
    /\ WriterAt(w, "check")
    /\ LET wr == st.wr[w]
           key == static_key(wr.dumped[wr.at].address)
       IN  IF key \in DOMAIN st.s.m.data
           THEN st' = [st EXCEPT !.wr[w] = writer_next(wr)]
           ELSE st' = [st EXCEPT !.wr[w].pc = "set"]
    /\ UNCHANGED ThreadsVars

\* self.set(key, value)
PutSet(w) ==
    /\ WriterAt(w, "set")
    /\ LET wr == st.wr[w]
           key == static_key(wr.dumped[wr.at].address)
       IN  st' = [st EXCEPT !.s.m = memory_set(@, key, wr.dumped[wr.at].data),
                            !.wr[w] = writer_next([wr EXCEPT !.sets = @ \cup {key}])]
    /\ UNCHANGED ThreadsVars

\* put returns (address, self._cached(address, value)), mput the pairs
\* (address, value)
PutReturn(w) ==
    /\ WriterAt(w, "return")
    /\ LET wr == st.wr[w]
       IN  IF wr.op = "put"
           THEN \E r \in {static_cached(st.c[w], wr.dumped[1].address, wr.arg[1])} :
                    st' = [st EXCEPT !.c[w] = r.c,
                                     !.wr[w].pc = "idle",
                                     !.wr[w].out = <<<<wr.dumped[1].address,
                                                       r.value>>>>,
                                     !.done = [op |-> "put", w |-> w]]
           ELSE st' = [st EXCEPT !.wr[w].pc = "idle",
                                 !.wr[w].out = [i \in 1 .. Len(wr.arg) |->
                                                   <<wr.dumped[i].address,
                                                     wr.arg[i]>>],
                                 !.done = [op |-> "mput", w |-> w]]
    /\ UNCHANGED ThreadsVars

NextPut ==
    \/ PutOpen
    \/ \E w \in Threads, v \in Objs : PutCall(w, "put", <<v>>)
    \/ \E w \in Threads, values \in StaticLists(Objs) : PutCall(w, "mput", values)
    \/ \E w \in Threads : PutCheck(w)
    \/ \E w \in Threads : PutSet(w)
    \/ \E w \in Threads : PutReturn(w)

SpecPut == Init /\ [][NextPut]_vars

\* the addresses a writer's latest call returned for value
returned_for(wr, value) ==
    { wr.out[i][1] : i \in { j \in 1 .. Len(wr.out) : py_eq(wr.arg[j], value) } }

\* the entries of the backing store that hold the dump of value
entries_of(m, value) ==
    { key \in DOMAIN m.data : m.data[key] = dumps_binary(value) }

\* C22: put or mput of a value that was put before, by the same writer or
\* by another one at the same time, returns the address returned before,
\* raises nothing, and leaves one entry for it in the backing store.
C22_PutTwice ==
    st.s # None /\ "wr" \in DOMAIN st
    => \A w \in Threads, v \in Objs :
           (st.wr[w].pc = "idle" /\ returned_for(st.wr[w], v) # {})
           => /\ st.wr[w].err = ""
              /\ \A u \in Threads :
                     st.wr[u].pc = "idle"
                     => returned_for(st.wr[u], v) \cup returned_for(st.wr[w], v)
                        = returned_for(st.wr[w], v)
              /\ Cardinality(returned_for(st.wr[w], v)) = 1
              /\ entries_of(st.s.m, v)
                 = { static_key(a) : a \in returned_for(st.wr[w], v) }

\* both writers have put the same value at the same time: each of them set
\* the key, neither saw the other's entry
C22_Witness ==
    /\ st.s # None /\ "wr" \in DOMAIN st
    /\ \A w \in Threads :
           /\ st.wr[w].pc = "idle"
           /\ st.wr[w].op = "put"
           /\ st.wr[w].arg = st.wr[1].arg
           /\ st.wr[w].sets # {}

(***************************************************************************)
(* The cache of the static store                                           *)
(***************************************************************************)
\* a call was made on the open static store
StaticStep == st.s # None /\ st'.n = st.n + 1

\* the addresses the call passes to _cached: the address of a get that is
\* not cached, the addresses of mget that are not cached, the address of put
static_inserted ==
    IF st'.done.op = "get" THEN {st'.done.arg} \ DOMAIN st.s.c.map
    ELSE IF st'.done.op = "mget"
    THEN { st'.done.arg[i] : i \in 1 .. Len(st'.done.arg) } \ DOMAIN st.s.c.map
    ELSE IF st'.done.op = "put" THEN {st'.done.out[1]}
    ELSE {}

\* at most cacheSize + 1 entries after the call; an insertion into a cache
\* of more than cacheSize entries leaves only what the call inserted
CacheBounded ==
    /\ Cardinality(DOMAIN st'.s.c.map) <= CacheSize + 1
    /\ (Cardinality(DOMAIN st.s.c.map) > CacheSize /\ static_inserted # {})
       => DOMAIN st'.s.c.map \subseteq static_inserted

\* every address cached before the call is cached with the same value after
CacheKept ==
    \A a \in DOMAIN st.s.c.map :
        a \in DOMAIN st'.s.c.map /\ st'.s.c.map[a] = st.s.c.map[a]

\* C24, as claimed: the cache is emptied before an insertion when it holds
\* more than cacheSize entries, holds at most cacheSize + 1 entries after any
\* call, and an address already cached keeps its first cached value.
C24_CacheKeepsFirst ==
    [][StaticStep
       => /\ CacheBounded
          /\ \A a \in DOMAIN st.s.c.map \cap DOMAIN st'.s.c.map :
                 st'.s.c.map[a] = st.s.c.map[a]]_vars

\* C24, amended: the cache is emptied before an insertion when it holds
\* more than cacheSize entries, holds at most cacheSize + 1 entries after any
\* call, and a call either keeps every cached address with its value or has
\* emptied the cache, after which the cache holds only what the call
\* inserted.
C24_CacheBounded ==
    [][StaticStep
       => /\ CacheBounded
          /\ \/ CacheKept
             \/ /\ Cardinality(DOMAIN st.s.c.map) + Cardinality(static_inserted)
                   > CacheSize + 1
                /\ DOMAIN st'.s.c.map \subseteq static_inserted]_vars

\* two addresses were looked up and cached, the cache was emptied since and
\* holds another address
C24_Witness ==
    /\ st.s # None /\ "missed" \in DOMAIN st
    /\ Cardinality(st.missed) = 2
    /\ DOMAIN st.s.c.map # {}
    /\ DOMAIN st.s.c.map \cap st.missed = {}

(***************************************************************************)
(* repo.py: a repository and its branches.  A branch is a zipper whose     *)
(* state is prefixed(repo._state, 'refs/<name>/'): its HEAD is stored      *)
(* under 'refs/<name>/HEAD'.  zipper.__init__ drops the objects argument   *)
(* and makes a static store of its own on the backing store under          *)
(* 'objects/', so every branch object has its own cache over the common    *)
(* static space.                                                           *)
(***************************************************************************)
BranchNames == {"a", "b"}

\* repository._qualify
qualify(name) == "refs/" \o name \o "/"

\* the key HEAD of a state with the prefix
branch_head(prefix) == store_key(prefix, HEAD)

\* prefixed._key seen from the zipper: the zipper operations, which use the
\* key HEAD of a state without a prefix, work on the store with the two keys
\* exchanged
swap_key(prefix, k) ==
    IF k = HeadKey THEN branch_head(prefix)
    ELSE IF k = branch_head(prefix) THEN HeadKey
    ELSE k

rekey(f, prefix) ==
    [k \in { swap_key(prefix, j) : j \in DOMAIN f } |-> f[swap_key(prefix, k)]]

prefixed_view(m, prefix) ==
    [m EXCEPT !.data = rekey(@, prefix), !.cas = rekey(@, prefix)]

\* the result r of a zipper operation on the state with the prefix
from_view(r, prefix) == [r EXCEPT !.m = prefixed_view(@, prefix)]

\* transactionally(proc, delta): begin_transaction, proc, end_transaction
transactionally(m, z, proc, delta, when) ==
    Let(memory_gets(m, HeadKey), LAMBDA g :
        IF g.err # "" THEN [m |-> m, zs |-> z, r |-> g.err]
        ELSE Let(zipper_call(g.m, z, proc, delta, when), LAMBDA r :
                 IF r.err # ""
                 THEN [m |-> r.m, zs |-> [z EXCEPT !.objects = r.c], r |-> r.err]
                 ELSE end_transaction(r.m, [z EXCEPT !.objects = r.c],
                                      [head |-> IF g.value = Undefined
                                                THEN Undefined
                                                ELSE loads_binary(g.value),
                                       token |-> g.token],
                                      r.value)))

\* Key.make(Branch, name), and the name of the key
branch_key(name) == IF name = "a" THEN 1 ELSE 2
branch_name(key) == IF key = 1 THEN "a" ELSE "b"

\* repository._config: Branch(self.author(), BranchConfig())
branch_config == [type |-> "branch", owner |-> anonymous]

\* repository.add, repository.remove: transactionally(self._add, branch) and
\* transactionally(self._remove, branch).  The commit carries the message
\* of the model's commits and not 'Add branch <name>.'; the message is a
\* field of the commit only.
repository_add(m, repo, name, when) ==
    transactionally(m, repo, "commit", <<<<branch_key(name), branch_config>>>>,
                    when)

repository_remove(m, repo, name, when) ==
    transactionally(m, repo, "commit", <<<<branch_key(name), Deleted>>>>, when)

\* repository.branches: find(Branch) is mget of the keys of the working view
repository_branches(m, repo) ==
    LET refs == working_iteritems(repo.changes, repo.manifest)
        pairs == zipper_mget(m, repo, [i \in 1 .. Len(refs) |-> refs[i][1]])
    IN  { branch_name(pairs[i][1]) : i \in 1 .. Len(pairs) }

\* repository.branch(name).create(): zipper.create of a new branch object,
\* then repo.add(branch)
branch_create(m, repo, name, when) ==
    Let(from_view(zipper_create(prefixed_view(m, qualify(name)), zipper_new, when),
                  qualify(name)), LAMBDA c :
        IF c.r # "ok" THEN [m |-> c.m, repo |-> repo, br |-> c.zs, r |-> c.r]
        ELSE Let(repository_add(c.m, repo, name, when), LAMBDA a :
                 [m |-> a.m, repo |-> a.zs, br |-> c.zs, r |-> a.r]))

\* branch.open(), for a branch that is not open
branch_open(m, br, name) ==
    from_view(zipper_do_open(prefixed_view(m, qualify(name)), br), qualify(name))

\* branch.transactionally(proc, delta)
branch_transactionally(m, br, name, proc, delta, when) ==
    from_view(transactionally(prefixed_view(m, qualify(name)), br, proc, delta,
                              when), qualify(name))

\* the stored HEAD of a branch
branch_stored_head(m, name) == memory_get(m, branch_head(qualify(name)))

(***************************************************************************)
(* SpecRepo: a repository on a memory store, repository(s).create().open(), *)
(* with the branches of a list created and opened, r.branch(n).create()    *)
(* .open(), and up to MaxRepoCalls calls on the repository and its         *)
(* branches.                                                               *)
(*   st.s.m      the memory store                                          *)
(*   st.repo     the repository, st.br[n] the branch object of name n      *)
(*   st.added    the names added to the repository and not removed since   *)
(*   st.n        the number of calls; the call number is the time now()    *)
(*   st.done     the latest call: op, name, r its outcome, out its result  *)
(***************************************************************************)
MaxRepoCalls == 3

BranchDeltas == { <<<<1, v>>>> : v \in DeltaValues }

\* r.branch(names[i]).create().open(), when the list has an i-th name
repo_setup(x, names, i) ==
    IF i > Len(names) THEN x
    ELSE Let(branch_create(x.m, x.repo, names[i], 0), LAMBDA c :
         Let(branch_open(c.m, c.br, names[i]), LAMBDA o :
             [m |-> o.m, repo |-> c.repo,
              br |-> [x.br EXCEPT ![names[i]] = o.zs]]))

RepoOpen(names) ==
    /\ st = st_new
    /\ \E x1 \in {repo_setup([m |-> Opened1.m, repo |-> Opened1.zs,
                              br |-> [n \in BranchNames |-> zipper_new]],
                             names, 1)} :
       \E x \in {repo_setup(x1, names, 2)} :
           st' = [s |-> [kind |-> "repo", m |-> x.m], repo |-> x.repo,
                  br |-> x.br, n |-> 0, done |-> [op |-> "open"],
                  added |-> { names[i] : i \in 1 .. Len(names) }]
    /\ UNCHANGED ThreadsVars

RepoReady == st.s # None /\ st.n < MaxRepoCalls

RepoStep(op, name, r, out) ==
    [st EXCEPT !.n = @ + 1, !.done = [op |-> op, name |-> name, r |-> r, out |-> out]]

BranchCreate(name) ==
    /\ RepoReady
    /\ \E c \in {branch_create(st.s.m, st.repo, name, st.n + 1)} :
           st' = [RepoStep("create", name, c.r, None) EXCEPT
                     !.s.m = c.m, !.repo = c.repo,
                     !.br[name] = IF c.r = "ok" THEN c.br ELSE @,
                     !.added = IF c.r = "ok" THEN @ \cup {name} ELSE @]
    /\ UNCHANGED ThreadsVars

BranchOpen(name) ==
    /\ RepoReady
    /\ ~is_open(st.br[name])
    /\ \E o \in {branch_open(st.s.m, st.br[name], name)} :
           st' = [RepoStep("open", name, o.r, None) EXCEPT
                     !.s.m = o.m, !.br[name] = o.zs]
    /\ UNCHANGED ThreadsVars

BranchTransaction(name, proc, delta) ==
    /\ RepoReady
    /\ is_open(st.br[name])
    /\ \E e \in {branch_transactionally(st.s.m, st.br[name], name, proc, delta,
                                        st.n + 1)} :
           st' = [RepoStep("transaction", name, e.r, None) EXCEPT
                     !.s.m = e.m, !.br[name] = e.zs]
    /\ UNCHANGED ThreadsVars

\* zipper.put
BranchPut(name, value) ==
    /\ RepoReady
    /\ is_open(st.br[name])
    /\ \E p \in {refput([m |-> st.s.m, c |-> st.br[name].objects], value)} :
           st' = [RepoStep("put", name, IF p.err = "" THEN "ok" ELSE p.err,
                           [ref |-> p.ref, value |-> value]) EXCEPT
                     !.s.m = p.m, !.br[name].objects = p.c]
    /\ UNCHANGED ThreadsVars

\* zipper.deref
BranchDeref(name, r) ==
    /\ RepoReady
    /\ is_open(st.br[name])
    /\ \E g \in {deref([m |-> st.s.m, c |-> st.br[name].objects], r)} :
           st' = [RepoStep("deref", name, IF g.err = "" THEN "ok" ELSE g.err,
                           g.value) EXCEPT
                     !.br[name].objects = g.c]
    /\ UNCHANGED ThreadsVars

RepositoryAdd(name) ==
    /\ RepoReady
    /\ \E a \in {repository_add(st.s.m, st.repo, name, st.n + 1)} :
           st' = [RepoStep("add", name, a.r, None) EXCEPT
                     !.s.m = a.m, !.repo = a.zs,
                     !.added = IF a.r = "ok" THEN @ \cup {name} ELSE @]
    /\ UNCHANGED ThreadsVars

RepositoryRemove(name) ==
    /\ RepoReady
    /\ \E a \in {repository_remove(st.s.m, st.repo, name, st.n + 1)} :
           st' = [RepoStep("remove", name, a.r, None) EXCEPT
                     !.s.m = a.m, !.repo = a.zs,
                     !.added = IF a.r = "ok" THEN @ \ {name} ELSE @]
    /\ UNCHANGED ThreadsVars

NextRepo ==
    \/ \E names \in {<<>>, <<"a">>, <<"a", "b">>} : RepoOpen(names)
    \/ \E name \in BranchNames : BranchCreate(name)
    \/ \E name \in BranchNames : BranchOpen(name)
    \/ \E name \in BranchNames, proc \in Procs, delta \in BranchDeltas :
           BranchTransaction(name, proc, delta)
    \/ \E name \in BranchNames, v \in Objs : BranchPut(name, v)
    \/ \E name \in BranchNames, v \in Objs :
           BranchDeref(name, sref(static_dump(v).address))
    \/ \E name \in BranchNames : RepositoryAdd(name)
    \/ \E name \in BranchNames : RepositoryRemove(name)

SpecRepo == Init /\ [][NextRepo]_vars

(***************************************************************************)
(* Two branches of one repository.                                         *)
(***************************************************************************)
RepoCalled(op, name) ==
    /\ st.s # None /\ st'.s # None
    /\ st'.n = st.n + 1
    /\ st'.done.op = op /\ st'.done.name = name /\ st'.done.r = "ok"

BranchKeys == {1, 2}

\* what branch b answers in state x: get(k) for every key, and items()
branch_answers(x, b) ==
    [get |-> [k \in BranchKeys |-> zipper_get(x.s.m, x.br[b], k).value],
     items |-> zipper_items(x.s.m, x.br[b])]

\* a transaction on branch a leaves the HEAD and the answers of b
BranchesIsolated(a, b) ==
    (RepoCalled("transaction", a) /\ is_open(st.br[b]))
    => /\ branch_stored_head(st'.s.m, b) = branch_stored_head(st.s.m, b)
       /\ st'.br[b] = st.br[b]
       /\ branch_answers(st', b) = branch_answers(st, b)

\* what put of branch a has stored, b puts under the same address and
\* dereferences
BranchesShare(a, b) ==
    (RepoCalled("put", a) /\ is_open(st'.br[b]))
    => /\ refput([m |-> st'.s.m, c |-> st'.br[b].objects], st'.done.out.value).ref
              = st'.done.out.ref
       /\ Let(deref([m |-> st'.s.m, c |-> st'.br[b].objects], st'.done.out.ref),
              LAMBDA g : /\ g.err = ""
                         /\ g.value # Undefined
                         /\ py_eq(g.value, st'.done.out.value))

\* C25: for two branches A and B with different names, a successful
\* transaction on A leaves B's stored HEAD and the results of B.get(k) and
\* B.items() unchanged for every key k, and a value put through A is stored
\* under the address B.put returns for the same value and can be
\* dereferenced through B.
C25_BranchesIndependent ==
    [][\A a \in BranchNames, b \in BranchNames :
          a # b => BranchesIsolated(a, b) /\ BranchesShare(a, b)]_vars

\* a call of the operation on the name, whatever its outcome
RepoTried(op, name) ==
    /\ st.s # None /\ st'.s # None
    /\ st'.n = st.n + 1
    /\ st'.done.op = op /\ st'.done.name = name

\* C26: creating a branch whose state already exists under its prefix
\* reuses the existing state and succeeds; after a branch was removed from
\* the repository, a branch of the same name can be created again and is
\* then listed by branches().
C26_CreateReuses ==
    [][\A name \in BranchNames :
          (RepoTried("create", name)
           /\ branch_stored_head(st.s.m, name) # Undefined)
          => /\ st'.done.r = "ok"
             /\ branch_stored_head(st'.s.m, name) = branch_stored_head(st.s.m, name)
             /\ name \in repository_branches(st'.s.m, st'.repo)]_vars

\* a successful repository.add or repository.remove of the name
RepoChanged(name) == RepoCalled("add", name) \/ RepoCalled("remove", name)

\* the call has appended one commit to the history of the repository
OneCommitMore ==
    Len(commits(st'.s.m, st'.repo)) = Len(commits(st.s.m, st.repo)) + 1

\* C27: each successful repository.add(branch) and repository.remove(branch)
\* appends exactly one commit to the repository's commit history, and after
\* any sequence of them branches() lists exactly the branches that were
\* added and not removed since.
C27_BranchesListed ==
    [][\A name \in BranchNames :
          RepoChanged(name)
          => /\ OneCommitMore
             /\ repository_branches(st'.s.m, st'.repo) = st'.added]_vars

(***************************************************************************)
(* repo.py: Key.  A key object is [oid, kind, id]: oid is the identity of  *)
(* the Python object, kind and id its fields; an id is [str |-> name] or   *)
(* [uuid |-> u].  The string form is the base64 text of the binary record  *)
(* with the padding stripped, [b64 |-> fields, pad |-> FALSE]; the same    *)
(* text with its padding is a string that decodes to the same fields.      *)
(* INTERNED is a WeakValueDictionary: it maps the string form to the key   *)
(* object as long as the program holds the object.                         *)
(***************************************************************************)
KeyKinds == {"T", "U"}
KeyNames == {"x"}
Uuids == {1, 2}
NoName == [str |-> ""]
KeyIdArgs == {None, NoName} \cup { [str |-> n] : n \in KeyNames }
KeyIds == { [str |-> n] : n \in KeyNames } \cup { [uuid |-> u] : u \in Uuids }
KeyStrings == { [b64 |-> [kind |-> k, id |-> i], pad |-> p] :
                  k \in KeyKinds, i \in KeyIds, p \in BOOLEAN }

\* Key._encode: urlsafe_b64encode(dumps_binary(self)).rstrip('=')
key_encode(k) == [b64 |-> [kind |-> k.kind, id |-> k.id], pad |-> FALSE]

\* the fields Key._decode reads: the padding is put back before b64decode
key_decode(encoded) == encoded.b64

\* an _intern that replaces the entry of the string form
key_intern_last(interned, k) ==
    [interned |-> [e \in DOMAIN interned \cup {key_encode(k)} |->
                      IF e = key_encode(k) THEN k ELSE interned[e]],
     key |-> k]

\* Key._intern: INTERNED.setdefault(str(self), self)
key_intern(interned, k) ==
    IF key_encode(k) \in DOMAIN interned
    THEN [interned |-> interned, key |-> interned[key_encode(k)]]
    ELSE [interned |-> [e \in DOMAIN interned \cup {key_encode(k)} |->
                           IF e = key_encode(k) THEN k ELSE interned[e]],
          key |-> k]

\* an id argument that is None or empty
id_falsy(id) == id = None \/ id = NoName

\* Key.make(kind, id): a new object oid; a uuid4 u for an id that is falsy
key_make(interned, oid, kind, id, u) ==
    key_intern(interned,
               [oid |-> oid, kind |-> kind,
                id |-> IF id_falsy(id) THEN [uuid |-> u] ELSE id])

\* Key(encoded): Key.__new__; _decode restores the fields into a new object
\* oid and interns it (__adapt__)
key_new(interned, oid, encoded) ==
    IF encoded \in DOMAIN interned
    THEN [interned |-> interned, key |-> interned[encoded]]
    ELSE key_intern(interned,
                    [oid |-> oid, kind |-> key_decode(encoded).kind,
                     id |-> key_decode(encoded).id])

\* the weak dictionary without the objects that are not held
weak_values(interned, held) ==
    [e \in { e \in DOMAIN interned : interned[e] \in held } |-> interned[e]]

(***************************************************************************)
(* SpecKey: up to MaxKeyCalls calls of Key.make and Key, and drops of the  *)
(* references the program holds.                                           *)
(*   st.s.interned  Key.INTERNED                                           *)
(*   st.held        the key objects the program holds (the live keys)      *)
(*   st.made        the latest result of Key.make for its arguments        *)
(***************************************************************************)
MaxKeyCalls == 3

KeyOpen ==
    /\ st = st_new
    /\ st' = [s |-> [kind |-> "keys", interned |-> EmptyFcn], held |-> {},
              made |-> EmptyFcn, n |-> 0, done |-> [op |-> "open"]]
    /\ UNCHANGED ThreadsVars

KeyReady == st.s # None /\ st.n < MaxKeyCalls

KeyMake(kind, id, u) ==
    /\ KeyReady
    /\ \E r \in {key_make(st.s.interned, st.n + 1, kind, id, u)} :
           st' = [st EXCEPT !.n = @ + 1, !.s.interned = r.interned,
                     !.held = @ \cup {r.key},
                     !.made = [a \in DOMAIN @ \cup {<<kind, id>>} |->
                                  IF a = <<kind, id>> THEN r.key ELSE @[a]],
                     !.done = [op |-> "make", kind |-> kind, id |-> id,
                               out |-> r.key]]
    /\ UNCHANGED ThreadsVars

KeyNew(encoded) ==
    /\ KeyReady
    /\ \E r \in {key_new(st.s.interned, st.n + 1, encoded)} :
           st' = [st EXCEPT !.n = @ + 1, !.s.interned = r.interned,
                     !.held = @ \cup {r.key},
                     !.done = [op |-> "new", arg |-> encoded, out |-> r.key]]
    /\ UNCHANGED ThreadsVars

\* the program drops its references to a key: the object is collected and
\* its entry leaves the weak dictionary
KeyDrop(k) ==
    /\ KeyReady
    /\ k \in st.held
    /\ st' = [st EXCEPT !.n = @ + 1, !.held = @ \ {k},
                 !.s.interned = weak_values(@, st.held \ {k}),
                 !.done = [op |-> "drop", out |-> k]]
    /\ UNCHANGED ThreadsVars

KeyHeld == IF st.s = None THEN {} ELSE st.held

NextKey ==
    \/ KeyOpen
    \/ \E kind \in KeyKinds, id \in KeyIdArgs, u \in Uuids : KeyMake(kind, id, u)
    \/ \E encoded \in KeyStrings : KeyNew(encoded)
    \/ \E k \in KeyHeld : KeyDrop(k)

SpecKey == Init /\ [][NextKey]_vars

\* for every live key k, Key(str(k)) returns the very same object k
KeyOfStr ==
    \A k \in KeyHeld :
        key_new(st.s.interned, st.n + 1, key_encode(k)).key.oid = k.oid

\* Key.make called again with the arguments of an earlier call whose result
\* is live
MadeAgain ==
    /\ st.s # None /\ st'.s # None
    /\ st'.done.op = "make"
    /\ <<st'.done.kind, st'.done.id>> \in DOMAIN st.made
    /\ st.made[<<st'.done.kind, st'.done.id>>] \in st.held

SameAsBefore ==
    st'.done.out.oid = st.made[<<st'.done.kind, st'.done.id>>].oid

\* C28: keys are interned by their string form: for every live Key k,
\* Key(str(k)) returns the very same object k, and Key.make(kind, id) called
\* twice with the same kind and id returns the same object.
C28_KeysInterned ==
    [][KeyOfStr' /\ (MadeAgain => SameAsBefore)]_vars

\* C28, amended: the same, for Key.make with an id that is given and not
\* empty; without one, make draws a uuid4 for the id, and two calls return
\* the same object only when they draw the same uuid
C28_KeysInternedById ==
    [][/\ KeyOfStr'
       /\ (MadeAgain /\ ~id_falsy(st'.done.id)) => SameAsBefore
       /\ (MadeAgain /\ id_falsy(st'.done.id))
          => (SameAsBefore <=> st'.done.out.id
                               = st.made[<<st'.done.kind, st'.done.id>>].id)]_vars

\* a key is made by name a second time while the first is live, and the
\* call returns the first object
C28_Witness ==
    /\ st.s # None
    /\ st.done.op = "make" /\ ~id_falsy(st.done.id)
    /\ st.done.out.oid < st.n
    /\ st.done.out \in st.held
    /\ Cardinality(st.held) > 1

(***************************************************************************)
(* Trees and maps in the static store.  A map of avro (types.py, Map) is a *)
(* tree; tree(seq) and Map(seq) are update(seq), one __setitem__ for every *)
(* pair of seq in order.                                                   *)
(* SpecTree: an open static store over a memory store, and up to           *)
(* MaxTreeCalls calls put(tree(seq)) for the lists seq of up to MaxPairs   *)
(* pairs.  st.puts holds, for every put, the list, the pairs of the tree   *)
(* and the address returned.                                               *)
(***************************************************************************)
MaxTreeCalls == 2
MaxPairs == 3

TreeValues == { sref(static_dump(o).address) : o \in Objs }
TreePairs == { <<k, v>> : k \in TreeKeys, v \in TreeValues }
TreeLists == UNION { [1 .. n -> TreePairs] : n \in 0 .. MaxPairs }

TreeOpen ==
    /\ st = st_new
    /\ st' = [s |-> [kind |-> "static", m |-> memory_open(memory_new),
                     c |-> [open |-> TRUE, map |-> EmptyFcn]],
              n |-> 0, done |-> [op |-> "open"], puts |-> {}]
    /\ UNCHANGED ThreadsVars

\* put(tree(seq))
TreePut(seq) ==
    /\ st.s # None /\ st.n < MaxTreeCalls
    /\ \E t \in {tree_update(tree_new, seq)} :
       \E r \in {static_store(st.s.m, st.s.c, t)} :
           st' = [st EXCEPT !.s.m = r.m, !.s.c = r.c, !.n = @ + 1,
                     !.done = [op |-> "put", arg |-> seq, err |-> r.err,
                               out |-> <<r.address, r.value>>],
                     !.puts = @ \cup {[seq |-> seq, pairs |-> t.dict,
                                       address |-> r.address]}]
    /\ UNCHANGED ThreadsVars

NextTree ==
    \/ TreeOpen
    \/ \E seq \in TreeLists : TreePut(seq)

SpecTree == Init /\ [][NextTree]_vars

TreePuts == IF st.s = None THEN {} ELSE st.puts

\* C29: serializing the same logical mapping twice yields identical bytes
\* and identical static addresses, whatever the order in which its keys
\* were inserted: put of two map or tree values that hold the same
\* key/value pairs returns the same address.
C29_SamePairsSameAddress ==
    \A p \in TreePuts, q \in TreePuts :
        p.pairs = q.pairs
        => /\ p.address = q.address
           /\ dumps_binary(tree_update(tree_new, p.seq))
                  = dumps_binary(tree_update(tree_new, q.seq))
           /\ memory_get(st.s.m, static_key(p.address))
                  = dumps_binary(tree_update(tree_new, q.seq))

\* two puts of trees with the same MaxPairs pairs, the keys inserted in
\* different orders
C29_Witness ==
    \E p \in TreePuts, q \in TreePuts :
        /\ p.pairs = q.pairs
        /\ Cardinality(DOMAIN p.pairs) = MaxPairs
        /\ p.seq[1][1] > p.seq[2][1]
        /\ q.seq[1][1] < q.seq[2][1]

(***************************************************************************)
(* avro/schema.py: records with a base.  A field is [name, type]; a        *)
(* definition is [name, base, fields] with base None for a record without  *)
(* one; SCHEMATA is the list of the schemas declared, each with the fields *)
(* its definition had after inherit.                                       *)
(***************************************************************************)
field(name, type) == [name |-> name, type |-> type]

field_names(fields) == [i \in 1 .. Len(fields) |-> fields[i].name]

\* the fields of tests.py's INHERIT
ItemFields == <<field("name", "string"), field("title", "string"),
                field("folder", "union"), field("description", "text")>>
FolderFields == <<field("default_name", "string"), field("description", "text"),
                  field("contents", "omap")>>
INHERIT == <<[name |-> "M.Item", base |-> None, fields |-> ItemFields],
             [name |-> "M.Folder", base |-> [name |-> "M.Item"],
              fields |-> FolderFields],
             [name |-> "M.Site", base |-> [name |-> "M.Folder"],
              fields |-> <<>>]>>

\* types.get_schema(name), for a name that is declared
get_schema(schemata, name) ==
    LET i == CHOOSE i \in 1 .. Len(schemata) : schemata[i].name = name
    IN  schemata[i]

RECURSIVE base_fields_kept(_, _)
\* [json.loads(str(f)) for f in base.fields if f.name not in new]
base_fields_kept(fields, new) ==
    IF fields = <<>> THEN <<>>
    ELSE IF Head(fields).name \in new THEN base_fields_kept(Tail(fields), new)
    ELSE <<field(Head(fields).name, Head(fields).type)>>
         \o base_fields_kept(Tail(fields), new)

\* an inherit_fields that puts the fields of the definition first
inherit_fields_own_first(base, defn) ==
    [defn EXCEPT !.fields =
        defn.fields
        \o base_fields_kept(base.fields,
                            { defn.fields[i].name : i \in 1 .. Len(defn.fields) })]

\* the own field with the name, in a list of own fields that has one
own_field(fields, name) ==
    fields[CHOOSE i \in 1 .. Len(fields) : fields[i].name = name]

\* an inherit_fields that writes a redeclared field at the place of the
\* base's field and appends the other fields of the definition
inherit_fields_in_place(base, defn) ==
    LET new == { defn.fields[i].name : i \in 1 .. Len(defn.fields) }
        old == { base.fields[i].name : i \in 1 .. Len(base.fields) }
        added(f) == f.name \notin old
    IN  [defn EXCEPT !.fields =
            [i \in 1 .. Len(base.fields) |->
                IF base.fields[i].name \in new
                THEN own_field(defn.fields, base.fields[i].name)
                ELSE base.fields[i]]
            \o SelectSeq(defn.fields, added)]

inherit_fields(base, defn) ==
    [defn EXCEPT !.fields =
        base_fields_kept(base.fields,
                         { defn.fields[i].name : i \in 1 .. Len(defn.fields) })
        \o defn.fields]

inherit(schemata, defn) ==
    IF defn.base = None THEN defn
    ELSE inherit_fields(get_schema(schemata, defn.base.name), defn)

\* declare(defn) for a name that is not declared yet
declare(schemata, defn) == Append(schemata, inherit(schemata, defn))

RECURSIVE schema_load(_, _)
\* load(data): declare for every definition of the source
schema_load(schemata, defns) ==
    IF defns = <<>> THEN schemata
    ELSE schema_load(declare(schemata, Head(defns)), Tail(defns))

(***************************************************************************)
(* SpecSchema: schema.clear(), with or without schema.load(INHERIT), and   *)
(* up to MaxRecords further records declared, each with up to MaxFields    *)
(* fields of different names and with or without a base that is declared.  *)
(***************************************************************************)
MaxRecords == 2
MaxFields == 2

RecordNames == <<"M.A", "M.B", "M.C", "M.D">>
FieldNames == {"description", "contents", "icon"}
FieldTypes == {"string", "text"}
Fields == { field(n, t) : n \in FieldNames, t \in FieldTypes }
FieldLists ==
    { fl \in UNION { [1 .. n -> Fields] : n \in 0 .. MaxFields } :
        \A i \in 1 .. Len(fl), j \in 1 .. Len(fl) :
            i # j => fl[i].name # fl[j].name }

SchemaOpen(defns) ==
    /\ st = st_new
    /\ st' = [s |-> [kind |-> "schemata", schemata |-> schema_load(<<>>, defns)],
              n |-> 0, done |-> [op |-> "load", arg |-> defns]]
    /\ UNCHANGED ThreadsVars

SchemaBases ==
    IF st.s = None THEN {}
    ELSE {None} \cup { [name |-> st.s.schemata[i].name] :
                         i \in 1 .. Len(st.s.schemata) }

\* declare of a record; a record without a base has fields
Declare(base, fields) ==
    /\ st.s # None /\ st.n < MaxRecords
    /\ base = None => fields # <<>>
    /\ \E defn \in {[name |-> RecordNames[st.n + 1], base |-> base,
                     fields |-> fields]} :
           st' = [st EXCEPT !.n = @ + 1,
                     !.s.schemata = declare(@, defn),
                     !.done = [op |-> "declare", arg |-> defn]]
    /\ UNCHANGED ThreadsVars

NextSchema ==
    \/ \E defns \in {<<>>, INHERIT} : SchemaOpen(defns)
    \/ \E base \in SchemaBases, fields \in FieldLists : Declare(base, fields)

SpecSchema == Init /\ [][NextSchema]_vars

Schemata == IF st.s = None THEN <<>> ELSE st.s.schemata

schema_declared(name) == \E i \in 1 .. Len(Schemata) : Schemata[i].name = name

\* the record declared last has a base
DeclaredWithBase ==
    st.s # None /\ st.done.op = "declare" /\ st.done.arg.base # None

\* the fields of the record declared last, of its base, and of its
\* definition
NewFields == get_schema(Schemata, st.done.arg.name).fields
BaseFields == get_schema(Schemata, st.done.arg.base.name).fields
OwnFields == st.done.arg.fields
OwnNames == { OwnFields[i].name : i \in 1 .. Len(OwnFields) }

\* the positions of the base's fields whose names are not redeclared
Inherited == { i \in 1 .. Len(BaseFields) : BaseFields[i].name \notin OwnNames }

\* C30: the field order of a record that declares a base is: the base's
\* fields in their declared order without the names the subclass
\* redeclares, followed by the subclass's own fields in declared order; so
\* M.Folder has the fields name, title, folder, default_name, description,
\* contents, and a record with a base and no fields of its own has exactly
\* the base's field list.
C30_FieldOrder ==
    /\ DeclaredWithBase
       => /\ Len(NewFields) = Cardinality(Inherited) + Len(OwnFields)
          /\ \A i \in Inherited :
                NewFields[Cardinality({ j \in Inherited : j <= i })] = BaseFields[i]
          /\ \A i \in 1 .. Len(OwnFields) :
                NewFields[Cardinality(Inherited) + i] = OwnFields[i]
          /\ (OwnFields = <<>> => NewFields = BaseFields)
    /\ schema_declared("M.Folder")
       => /\ field_names(get_schema(Schemata, "M.Folder").fields)
                = <<"name", "title", "folder", "default_name", "description",
                    "contents">>
          /\ get_schema(Schemata, "M.Site").fields
                = get_schema(Schemata, "M.Folder").fields

\* a record declared on M.Folder that redeclares description and adds a
\* field
C30_Witness ==
    /\ DeclaredWithBase
    /\ st.done.arg.base.name = "M.Folder"
    /\ Len(OwnFields) = MaxFields
    /\ "description" \in OwnNames
    /\ Cardinality(Inherited) = 5

\* the position of the field with the name in a list that has one
field_index(fields, name) ==
    CHOOSE i \in 1 .. Len(fields) : fields[i].name = name

\* the names the record declared last declares again
Redeclared ==
    { n \in OwnNames : \E i \in 1 .. Len(BaseFields) : BaseFields[i].name = n }

\* C31: when a record declares a base, the base's fields are prepended in
\* inherited order and a field redeclared by the subclass replaces the
\* same-named base field in place, at the position the field has in the
\* base's field list.
C31_RedeclaredInPlace ==
    DeclaredWithBase
    => \A n \in Redeclared :
          /\ field_index(NewFields, n) = field_index(BaseFields, n)
          /\ NewFields[field_index(NewFields, n)] = own_field(OwnFields, n)

\* C31, amended: the base's fields are prepended in inherited order without
\* the fields the record declares again; a redeclared field is listed once,
\* as the record declares it, at its place among the record's own fields
\* after the inherited ones.
C31_RedeclaredAmongOwn ==
    DeclaredWithBase
    => /\ \A i \in 1 .. Len(NewFields), j \in 1 .. Len(NewFields) :
             NewFields[i].name = NewFields[j].name => i = j
       /\ \A n \in Redeclared :
             /\ field_index(NewFields, n)
                    = Len(NewFields) - Len(OwnFields) + field_index(OwnFields, n)
             /\ NewFields[field_index(NewFields, n)] = own_field(OwnFields, n)
       /\ \A i \in 1 .. Len(NewFields) - Len(OwnFields) :
             /\ NewFields[i].name \notin OwnNames
             /\ \E j \in 1 .. Len(BaseFields) : BaseFields[j] = NewFields[i]
       /\ \A i \in 1 .. Len(BaseFields), j \in 1 .. Len(BaseFields) :
             (i < j /\ BaseFields[i].name \notin OwnNames
                    /\ BaseFields[j].name \notin OwnNames)
             => field_index(NewFields, BaseFields[i].name)
                    < field_index(NewFields, BaseFields[j].name)

\* a record that declares again, with another type, a field that is not
\* the last of its base
C31_Witness ==
    /\ DeclaredWithBase
    /\ \E n \in Redeclared :
          /\ field_index(BaseFields, n) < Len(BaseFields)
          /\ own_field(OwnFields, n).type # BaseFields[field_index(BaseFields, n)].type
          /\ field_index(NewFields, n) # field_index(BaseFields, n)

(***************************************************************************)
(* collections.py: the other methods of tree.  An offset is the record     *)
(* None when it is not given or is None, and [at |-> key] otherwise.       *)
(***************************************************************************)
\* clear
tree_clear(t) == tree_new

\* popitem: the last key of the index; IndexError for an empty tree
tree_popitem(t) ==
    IF t.index = <<>> THEN [t |-> t, err |-> "IndexError"]
    ELSE [t |-> [dict |-> [k \in DOMAIN t.dict \ {t.index[Len(t.index)]} |->
                              t.dict[k]],
                 index |-> SubSeq(t.index, 1, Len(t.index) - 1)],
          err |-> ""]

\* setdefault(key, default)
tree_setdefault(t, key, default) ==
    IF tree_contains(t, key) THEN t ELSE tree_setitem(t, key, default)

RECURSIVE takewhile_less(_, _)
\* it.takewhile(lambda k: k < end, keys)
takewhile_less(keys, end) ==
    IF keys = <<>> \/ ~(Head(keys) < end.at) THEN <<>>
    ELSE <<Head(keys)>> \o takewhile_less(Tail(keys), end)

\* iterkeys(start, end); iterkeys(end) is iterkeys(None, end)
tree_iterkeys(t, start, end) ==
    LET keys == IF start = None THEN t.index
                ELSE SubSeq(t.index, bisect_left(t.index, start.at) + 1,
                            Len(t.index))
    IN  IF end = None THEN keys ELSE takewhile_less(keys, end)

\* iteritems(start, end), itervalues(start, end)
tree_items(t, start, end) ==
    LET keys == tree_iterkeys(t, start, end)
    IN  [i \in 1 .. Len(keys) |-> <<keys[i], t.dict[keys[i]]>>]

tree_values(t, start, end) ==
    LET keys == tree_iterkeys(t, start, end)
    IN  [i \in 1 .. Len(keys) |-> t.dict[keys[i]]]

(***************************************************************************)
(* SpecSorted: two trees, the first empty and the second a copy of it, and *)
(* up to MaxTreeOps method calls on them.                                  *)
(*   st.s.t[i]   the trees                                                 *)
(*   st.done     the latest call: op its name, on the tree, err how it     *)
(*               raised                                                    *)
(***************************************************************************)
MaxTreeOps == 4

SortedIds == {1, 2}
TreeUpdates == { <<p, q>> : p \in TreePairs, q \in TreePairs }

SortedOpen ==
    /\ st = st_new
    /\ st' = [s |-> [kind |-> "trees", t |-> [i \in SortedIds |-> tree_new]],
              n |-> 0, done |-> [op |-> "open", on |-> 0, err |-> ""]]
    /\ UNCHANGED ThreadsVars

SortedReady == st.s # None /\ st.n < MaxTreeOps

SortedStep(op, i, t, err) ==
    [st EXCEPT !.n = @ + 1, !.s.t[i] = t,
               !.done = [op |-> op, on |-> i, err |-> err]]

TreeSetitem(i, key, value) ==
    /\ SortedReady
    /\ st' = SortedStep("setitem", i, tree_setitem(st.s.t[i], key, value), "")
    /\ UNCHANGED ThreadsVars

\* __delitem__: dict.__delitem__ raises KeyError before the index is touched
TreeDelitem(i, key) ==
    /\ SortedReady
    /\ st' = IF tree_contains(st.s.t[i], key)
             THEN SortedStep("delitem", i, tree_delitem(st.s.t[i], key), "")
             ELSE SortedStep("delitem", i, st.s.t[i], "KeyError")
    /\ UNCHANGED ThreadsVars

TreePop(i, key) ==
    /\ SortedReady
    /\ st' = SortedStep("pop", i, tree_pop(st.s.t[i], key), "")
    /\ UNCHANGED ThreadsVars

TreePopitem(i) ==
    /\ SortedReady
    /\ \E r \in {tree_popitem(st.s.t[i])} :
           st' = SortedStep("popitem", i, r.t, r.err)
    /\ UNCHANGED ThreadsVars

TreeSetdefault(i, key, value) ==
    /\ SortedReady
    /\ st' = SortedStep("setdefault", i, tree_setdefault(st.s.t[i], key, value), "")
    /\ UNCHANGED ThreadsVars

TreeUpdate(i, seq) ==
    /\ SortedReady
    /\ st' = SortedStep("update", i, tree_update(st.s.t[i], seq), "")
    /\ UNCHANGED ThreadsVars

TreeClear(i) ==
    /\ SortedReady
    /\ st' = SortedStep("clear", i, tree_clear(st.s.t[i]), "")
    /\ UNCHANGED ThreadsVars

\* t[j] = t[i].copy()
TreeCopy(i, j) ==
    /\ SortedReady
    /\ st' = SortedStep("copy", j, tree_copy(st.s.t[i]), "")
    /\ UNCHANGED ThreadsVars

NextSorted ==
    \/ SortedOpen
    \/ \E i \in SortedIds, key \in TreeKeys, value \in TreeValues :
           TreeSetitem(i, key, value)
    \/ \E i \in SortedIds, key \in TreeKeys : TreeDelitem(i, key)
    \/ \E i \in SortedIds, key \in TreeKeys : TreePop(i, key)
    \/ \E i \in SortedIds : TreePopitem(i)
    \/ \E i \in SortedIds, key \in TreeKeys, value \in TreeValues :
           TreeSetdefault(i, key, value)
    \/ \E i \in SortedIds, seq \in TreeUpdates : TreeUpdate(i, seq)
    \/ \E i \in SortedIds : TreeClear(i)
    \/ \E i \in SortedIds, j \in SortedIds : i # j /\ TreeCopy(i, j)

SpecSorted == Init /\ [][NextSorted]_vars

SortedTrees == IF st.s = None THEN {} ELSE { st.s.t[i] : i \in SortedIds }

\* the offsets of a range: None, the keys, and a value below and above them
TreeOffsets == {None} \cup { [at |-> k] : k \in 0 .. MaxKey + 1 }

\* the list is in strictly ascending order
Ascending(keys) == \A i \in 1 .. Len(keys) - 1 : keys[i] < keys[i + 1]

\* the keys of the list are the keys k of the mapping with lo <= k < hi
\* (None for no limit), each once
KeysWithin(t, keys, lo, hi) ==
    /\ Ascending(keys)
    /\ { keys[i] : i \in 1 .. Len(keys) }
           = { k \in DOMAIN t.dict :
                 (lo = None \/ lo.at <= k) /\ (hi = None \/ k < hi.at) }

\* C34: a tree keeps its items sorted by key: after any sequence of
\* __setitem__, __delitem__, pop, popitem, setdefault, update, clear and
\* copy, iterating the tree (keys, values, items) yields exactly the keys
\* held by the mapping, each once, in strictly ascending key order, and
\* items(start, end) yields exactly the pairs with start <= key < end.
C34_TreeSorted ==
    \A t \in SortedTrees :
        /\ KeysWithin(t, tree_iterkeys(t, None, None), None, None)
        /\ tree_items(t, None, None) = tree_iteritems(t)
        /\ \A lo \in TreeOffsets, hi \in TreeOffsets :
              LET keys == tree_iterkeys(t, lo, hi)
                  items == tree_items(t, lo, hi)
                  values == tree_values(t, lo, hi)
              IN  /\ KeysWithin(t, keys, lo, hi)
                  /\ Len(items) = Len(keys) /\ Len(values) = Len(keys)
                  /\ \A i \in 1 .. Len(keys) :
                        /\ items[i] = <<keys[i], t.dict[keys[i]]>>
                        /\ values[i] = t.dict[keys[i]]

\* one tree holds every key and the other, after a successful pop, del or
\* popitem, one key less
C34_Witness ==
    /\ st.s # None
    /\ st.done.op \in {"pop", "delitem", "popitem"}
    /\ st.done.err = ""
    /\ \E i \in SortedIds, j \in SortedIds :
          /\ Len(st.s.t[i].index) = MaxKey
          /\ Len(st.s.t[j].index) = MaxKey - 1

(***************************************************************************)
(* Tokens and delete                                                       *)
(***************************************************************************)
\* the latest call was cas on key with the token of a gets that found the
\* key, made on a store of one of the kinds after the key was deleted: a
\* present key goes away by delete or mdelete only
CasOfDeleted(kinds, key) ==
    /\ st.s # None
    /\ st.s.kind \in kinds
    /\ st'.n = st.n + 1
    /\ st'.done.op = "cas"
    /\ st'.done.arg[1] = key
    /\ st.held[key] \notin {Unheld, None}
    /\ store_get(st.s, key) = Undefined

\* C36: in the memory and fsdir stores, after delete(k) a cas(k, v, t) with
\* a token t that a gets(k) before the delete returned raises NotStored and
\* does not create the key again.
C36_CasAfterDelete ==
    [][\A key \in StoreKeys :
          CasOfDeleted({"memory", "fsdir"}, key)
          => /\ st'.done.err = "NotStored"
             /\ store_get(st'.s, key) = Undefined]_vars

(***************************************************************************)
(* commit applies the changeset to the manifest.                           *)
(***************************************************************************)
\* the manifest of zipper z, once it is a tree, maps no key to Deleted
ManifestClean(z) ==
    isTree(zs[z].manifest) =>
        \A k \in DOMAIN zs[z].manifest.dict : zs[z].manifest.dict[k] # Deleted

(***************************************************************************)
(* SpecDropped: the two open zippers of InitOpen with close, create and    *)
(* open added to up to MaxDropTx transactions that checkpoint or commit    *)
(* one key.                                                                *)
(***************************************************************************)
MaxDropTx == 3

BeginDropped(z) == BeginStep(z, MaxDropTx)

MutateDropped(z) ==
    \E p \in {"checkpoint", "commit"}, d \in LifeDeltas : Mutate(z, p, d)

NextDropped ==
    \/ \E z \in Zippers : Create(z)
    \/ \E z \in Zippers : Open(z)
    \/ \E z \in Zippers : Close(z)
    \/ \E z \in Zippers : BeginDropped(z)
    \/ \E z \in Zippers : MutateDropped(z)
    \/ \E z \in Zippers : End(z)

SpecDropped == InitOpen /\ [][NextDropped]_vars

\* C37: no manifest written by a commit maps a key to Deleted, and commit
\* never fails while it applies the changeset: a key that make_manifest
\* removes because the changeset marks it Deleted is in the manifest that
\* is copied, so del manifest[key] raises no KeyError.
C37_CommitApplies ==
    \A z \in Zippers :
        /\ ManifestClean(z)
        /\ res[z].proc = "commit" => res[z].r # "KeyError"

(***************************************************************************)
(* close and the other zippers of the store.                               *)
(***************************************************************************)
\* zipper z, which was open, has been closed in this step
Closed(z) ==
    /\ is_open(zs[z]) /\ ~is_open(zs'[z])
    /\ last' = "close"

\* zipper y answers after the step as before it: get on every key, items,
\* and begin_transaction, which reads HEAD with gets
SameAnswers(y) ==
    /\ \A k \in Keys : get_value(mem', zs'[y], k) = get_value(mem, zs[y], k)
    /\ zipper_items(mem', zs'[y]) = zipper_items(mem, zs[y])
    /\ memory_gets(mem', HeadKey).err = memory_gets(mem, HeadKey).err
    /\ memory_gets(mem', HeadKey).value = memory_gets(mem, HeadKey).value

\* C38: closing one zipper leaves every other open zipper on the same
\* backing store usable: after A.close(), B.get(k), B.items() and B's
\* transactions give the same results as if A had not been closed.
C38_CloseLeavesOthers ==
    [][\A z \in Zippers, y \in Zippers :
          (y # z /\ Closed(z) /\ is_open(zs[y])) => SameAnswers(y)]_vars

(***************************************************************************)
(* db/tree.py, db/api.py: the content tree in a delta.  An item is a       *)
(* record: cls its class, name, folder (None or the reference of a key)    *)
(* and contents, the omap of a folder as the list of its entries in the    *)
(* order they were added.  s is what a delta works on:                     *)
(*   s.heap[k]   the object api.get hands out for key k: the pending       *)
(*               object of the delta or the one the static cache holds,    *)
(*               which a method changes in place                           *)
(*   s.stored    the working view of the zipper: the state of each key as  *)
(*               the latest checkpoint wrote it                            *)
(*   s.data      _data of the delta by Key: "changed" for an object,       *)
(*               "deleted" for Undefined                                   *)
(*   s.junk      the entries of _data whose key is no Key                  *)
(* What get returns is Undefined or [key, item].                           *)
(***************************************************************************)
ROOT == 1

\* new items in one behaviour
MaxItems == 3
\* calls in one behaviour
MaxContentOps == 4

Slugs == {"a", "b"}
\* names as a caller gives them
RawNames == {"a", "B", "-"}

\* _slug: lower case, every run of other characters a "-", no "-" at the ends
slug(name) == CASE name = "B" -> "b" [] name = "-" -> "" [] OTHER -> name

kref(key) == [key |-> key]

\* zipper.new(cls, state): an object of the class with a key of its own;
\* folder and contents have their defaults
zs_new(heap, cls, name) ==
    Append(heap, [cls |-> cls, name |-> name, folder |-> None, contents |-> <<>>])

\* __leaf__; an object without it is a leaf
leaf(r) == r = Undefined \/ r.item.cls = "Page"

\* name in self.contents, self.contents.get(name)
contents_get(item, name) ==
    IF \E i \in 1 .. Len(item.contents) : item.contents[i].name = name
    THEN kref(item.contents[CHOOSE i \in 1 .. Len(item.contents) :
                                 item.contents[i].name = name].key)
    ELSE None

\* Folder.add
folder_add(heap, f, c) ==
    IF contents_get(heap[f], heap[c].name) # None
    THEN [heap |-> heap, err |-> "ValueError"]
    ELSE IF heap[c].folder # None
    THEN [heap |-> heap, err |-> "ValueError"]
    ELSE [heap |-> [k \in DOMAIN heap |->
                      [heap[k] EXCEPT
                          !.contents = IF k = f
                                       THEN Append(@, [name |-> heap[c].name,
                                                       key |-> c])
                                       ELSE @,
                          !.folder = IF k = c THEN kref(f) ELSE @]],
          err |-> ""]

\* Folder.remove
folder_remove(heap, f, c) ==
    IF contents_get(heap[f], heap[c].name) # kref(c) THEN heap
    ELSE [k \in DOMAIN heap |->
             [heap[k] EXCEPT
                 !.contents = IF k = f
                              THEN SelectSeq(@, LAMBDA e : e.name # heap[c].name)
                              ELSE @,
                 !.folder = IF k = c THEN None ELSE @]]

\* _Delta.changed
delta_changed(s, keys) ==
    [s EXCEPT !.data = [k \in DOMAIN s.data \cup keys |->
                           IF k \in keys THEN "changed" ELSE s.data[k]]]

\* _Delta.delete
delta_delete(s, key) ==
    [s EXCEPT !.data = [k \in DOMAIN s.data \cup {key} |->
                           IF k = key THEN "deleted" ELSE s.data[k]]]

\* _Delta.new
delta_new(s, cls, name) ==
    [s |-> delta_changed([s EXCEPT !.heap = zs_new(s.heap, cls, name)],
                         {Len(s.heap) + 1}),
     key |-> Len(s.heap) + 1]

\* zipper.get of the source
zs_get(s, key) ==
    IF key \in DOMAIN s.stored THEN [key |-> key, item |-> s.heap[key]]
    ELSE Undefined

\* _Delta.get
delta_get(s, key) ==
    IF key \in DOMAIN s.data
    THEN IF s.data[key] = "changed" THEN [key |-> key, item |-> s.heap[key]]
         ELSE Undefined
    ELSE zs_get(s, key)

RECURSIVE ascending(_)
\* the numbers of a set in ascending order
ascending(S) ==
    IF S = {} THEN <<>>
    ELSE LET m == CHOOSE x \in S : \A y \in S : x <= y
         IN  <<m>> \o ascending(S \ {m})

\* zipper.mget of the source: a pair (key, Undefined) for every key without
\* an address, then one pair for every address, under the last key entered
\* for it; two keys have one address when their stored states are equal
zs_mget(s, need) ==
    LET missing == SelectSeq(need, LAMBDA k : k \notin DOMAIN s.stored)
        have == SelectSeq(need, LAMBDA k : k \in DOMAIN s.stored)
        kept == { have[i] : i \in { i \in 1 .. Len(have) :
                      \A j \in (i + 1) .. Len(have) :
                          s.stored[have[j]] # s.stored[have[i]] } }
        keys == ascending(kept)
    IN  [i \in 1 .. Len(missing) |->
            [pair |-> TRUE, key |-> missing[i], value |-> Undefined]]
        \o [i \in 1 .. Len(keys) |->
              [pair |-> TRUE, key |-> keys[i], value |-> zs_get(s, keys[i])]]

\* _Delta.mget: the pending objects, then what the source's mget yields for
\* the keys whose probe is Undefined
delta_mget(s, keys) ==
    LET pending == SelectSeq(keys, LAMBDA k :
                       k \in DOMAIN s.data /\ s.data[k] = "changed")
        need == SelectSeq(keys, LAMBDA k :
                       ~(k \in DOMAIN s.data /\ s.data[k] = "changed"))
    IN  [i \in 1 .. Len(pending) |->
            [pair |-> FALSE, key |-> pending[i],
             value |-> [key |-> pending[i], item |-> s.heap[pending[i]]]]]
        \o zs_mget(s, need)

\* Folder.__iter__
folder_iter(s, r) ==
    [i \in 1 .. Len(r.item.contents) |-> delta_get(s, r.item.contents[i].key)]

RECURSIVE descend_loop(_, _)
descend_loop(s, queue) ==
    IF queue = <<>> THEN <<>>
    ELSE <<Head(queue)>>
         \o descend_loop(s, Tail(queue)
                            \o (IF leaf(Head(queue)) THEN <<>>
                                ELSE folder_iter(s, Head(queue))))

\* query/tree.py descend
descend(s, r) == IF leaf(r) THEN <<>> ELSE descend_loop(s, folder_iter(s, r))

\* db/tree.py walk: orself(item, descend)
walk(s, key) ==
    LET r == [key |-> key, item |-> s.heap[key]] IN  <<r>> \o descend(s, r)

\* the keys of the objects of a walk
walked_keys(rs) == { rs[i].key : i \in { i \in 1 .. Len(rs) : rs[i] # Undefined } }

\* api.delete of a list of objects: source().delete(k) for each of them,
\* with the object and not its key
api_delete_all(s, rs) ==
    [s EXCEPT !.junk = @ \cup { IF rs[i] = Undefined THEN Undefined
                                ELSE kref(rs[i].key) : i \in 1 .. Len(rs) }]

\* db/tree.py add
content_add(s, f, c) ==
    Let(folder_add(s.heap, f, c), LAMBDA r :
        IF r.err # "" THEN [s |-> s, err |-> r.err, walked |-> {}]
        ELSE [s |-> delta_changed([s EXCEPT !.heap = r.heap], {f, c}),
              err |-> "", walked |-> {}])

\* db/tree.py make; folder is None or the reference of a folder
content_make(s, cls, raw, folder) ==
    IF slug(raw) = "" THEN [s |-> s, err |-> "ValueError", walked |-> {}]
    ELSE Let(delta_new(s, cls, slug(raw)), LAMBDA n :
             IF folder = None THEN [s |-> n.s, err |-> "", walked |-> {}]
             ELSE content_add(n.s, folder.key, n.key))

\* db/tree.py save and Value.update with one keyword
content_save(s, c, attr, val) ==
    [s |-> delta_changed([s EXCEPT !.heap[c][attr] = val], {c}),
     err |-> "", walked |-> {}]

\* db/tree.py remove
content_remove(s, c) ==
    IF delta_get(s, ROOT) # Undefined /\ s.heap[c] = delta_get(s, ROOT).item
    THEN [s |-> s, err |-> "ValueError", walked |-> {}]
    ELSE IF s.heap[c].folder = None
    THEN [s |-> s, err |-> "AttributeError", walked |-> {}]
    ELSE Let(delta_get(s, s.heap[c].folder.key), LAMBDA parent :
             IF leaf(parent) THEN [s |-> s, err |-> "AttributeError", walked |-> {}]
             ELSE Let(delta_changed(
                          [s EXCEPT !.heap = folder_remove(s.heap, parent.key, c)],
                          {parent.key}), LAMBDA s1 :
                      [s |-> api_delete_all(s1, walk(s1, c)), err |-> "",
                       walked |-> walked_keys(walk(s1, c))]))

\* _Delta.checkpoint: _persist turns Undefined into Deleted; make_changeset
\* drops a Deleted entry whose key the manifest does not have; afterwards a
\* new delta is begun
delta_checkpoint(s) ==
    [s EXCEPT
       !.stored = [k \in (DOMAIN s.stored
                            \cup { k \in DOMAIN s.data : s.data[k] = "changed" })
                         \ { k \in DOMAIN s.data : s.data[k] = "deleted" } |->
                      IF k \in DOMAIN s.data THEN s.heap[k] ELSE s.stored[k]],
       !.data = <<>>,
       !.junk = {}]

(***************************************************************************)
(* SpecContent: a branch that holds the root, a delta on it, and up to     *)
(* MaxContentOps calls.  st.done is the latest call: op, arg, err, walked  *)
(* (the keys remove has walked) and out (what mget has yielded).           *)
(***************************************************************************)
ContentRoot == [cls |-> "Site", name |-> "test", folder |-> None, contents |-> <<>>]

ContentOpen ==
    /\ st = st_new
    /\ st' = [s |-> [kind |-> "content", heap |-> <<ContentRoot>>,
                     stored |-> <<ContentRoot>>, data |-> <<>>, junk |-> {}],
              n |-> 0,
              done |-> [op |-> "open", arg |-> <<>>, err |-> "", walked |-> {},
                        out |-> <<>>]]
    /\ UNCHANGED ThreadsVars

ContentReady == st.s # None /\ st.n < MaxContentOps

ContentKeys == IF st.s = None THEN {} ELSE 1 .. Len(st.s.heap)

\* the keys api.get resolves, and those of them that are folders
LiveKeys(s) == { k \in 1 .. Len(s.heap) : delta_get(s, k) # Undefined }
LiveFolders(s) == { k \in LiveKeys(s) : s.heap[k].cls # "Page" }

ContentLive == IF st.s = None THEN {} ELSE LiveKeys(st.s)
ContentFolders == IF st.s = None THEN {} ELSE LiveFolders(st.s)

ContentStep(op, arg, r, out) ==
    /\ st' = [st EXCEPT !.s = r.s, !.n = @ + 1,
                        !.done = [op |-> op, arg |-> arg, err |-> r.err,
                                  walked |-> r.walked, out |-> out]]
    /\ UNCHANGED ThreadsVars

ContentMake(cls, raw, folder) ==
    /\ ContentReady
    /\ Len(st.s.heap) < MaxItems + 1
    /\ ContentStep("make", <<cls, raw, folder>>,
                   content_make(st.s, cls, raw, folder), <<>>)

\* add(folder, item) for an item that is not above the folder
ContentAdd(f, c) ==
    /\ ContentReady
    /\ f \notin walked_keys(walk(st.s, c))
    /\ ContentStep("add", <<f, c>>, content_add(st.s, f, c), <<>>)

ContentSave(c, attr, val) ==
    /\ ContentReady
    /\ ContentStep("save", <<c, attr, val>>,
                   content_save(st.s, c, attr, val), <<>>)

ContentRemove(c) ==
    /\ ContentReady
    /\ ContentStep("remove", <<c>>, content_remove(st.s, c), <<>>)

\* api.delete(key)
ContentDelete(key) ==
    /\ ContentReady
    /\ ContentStep("delete", <<key>>,
                   [s |-> delta_delete(st.s, key), err |-> "", walked |-> {}],
                   <<>>)

\* api.get(keys)
ContentMget(keys) ==
    /\ ContentReady
    /\ ContentStep("mget", keys, [s |-> st.s, err |-> "", walked |-> {}],
                   delta_mget(st.s, keys))

ContentCheckpoint ==
    /\ ContentReady
    /\ ContentStep("checkpoint", <<>>,
                   [s |-> delta_checkpoint(st.s), err |-> "", walked |-> {}],
                   <<>>)

\* one key, or two different keys
MgetLists(keys) ==
    { <<k>> : k \in keys }
        \cup { kl \in { <<k, l>> : k \in keys, l \in keys } : kl[1] # kl[2] }

NextContent ==
    \/ ContentOpen
    \/ \E cls \in {"Folder", "Page"}, raw \in RawNames :
         \E folder \in {None} \cup { kref(k) : k \in ContentFolders } :
             ContentMake(cls, raw, folder)
    \/ \E f \in ContentFolders, c \in ContentLive : ContentAdd(f, c)
    \/ \E c \in ContentLive, name \in Slugs : ContentSave(c, "name", name)
    \/ \E c \in ContentLive : ContentSave(c, "folder", None)
    \/ \E c \in ContentLive : ContentRemove(c)
    \/ \E key \in ContentKeys : ContentDelete(key)
    \/ \E keys \in MgetLists(ContentKeys) : ContentMget(keys)
    \/ ContentCheckpoint

SpecContent == Init /\ [][NextContent]_vars

(***************************************************************************)
(* The folder of an item and the contents of the folder.                   *)
(***************************************************************************)
\* f.contents[c.name] == c.key if and only if c.folder == f.key, for every
\* folder f and item c that get resolves
FolderEdges(s) ==
    \A f \in LiveFolders(s), c \in LiveKeys(s) :
        (contents_get(s.heap[f], s.heap[c].name) = kref(c))
            <=> (s.heap[c].folder = kref(f))

\* C32: after any sequence of make, add, save and remove, for every folder
\* f and every item c, f.contents[c.name] == c.key if and only if
\* c.folder == f.key; an add that raises ValueError changes nothing.
C32_FolderEdges ==
    [][/\ st'.s # None => FolderEdges(st'.s)
       /\ (st.s # None /\ st'.done.op = "add" /\ st'.done.err = "ValueError")
              => st'.s = st.s]_vars

(***************************************************************************)
(* The order of //. at the root.                                           *)
(***************************************************************************)
RECURSIVE preorder(_, _)
RECURSIVE preorder_all(_, _)
\* document order: an item, then the subtree of each of its children in
\* turn
preorder(s, r) ==
    <<r>> \o (IF leaf(r) THEN <<>> ELSE preorder_all(s, folder_iter(s, r)))

preorder_all(s, rs) ==
    IF rs = <<>> THEN <<>>
    ELSE preorder(s, Head(rs)) \o preorder_all(s, Tail(rs))

\* the root resolves, and so does every entry of every folder below it,
\* each item under one folder only
ContentTree(s) ==
    /\ delta_get(s, ROOT) # Undefined
    /\ LET rs == preorder(s, delta_get(s, ROOT))
       IN  /\ \A i \in 1 .. Len(rs) : rs[i] # Undefined
           /\ \A i, j \in 1 .. Len(rs) : rs[i] = rs[j] => i = j

\* C33: for every content tree, //. at the root (descendant-or-self of the
\* root) returns every descendant-or-self of the root exactly once and in
\* document order: the subtree of a folder is listed completely before the
\* next sibling of the folder.
C33_DocumentOrder ==
    (st.s # None /\ ContentTree(st.s))
        => walk(st.s, ROOT) = preorder(st.s, delta_get(st.s, ROOT))

(***************************************************************************)
(* remove and the checkpoint after it.                                     *)
(***************************************************************************)
\* the latest call is op, made in this step
ContentCalled(op) == st.s # None /\ st'.n = st.n + 1 /\ st'.done.op = op

\* C35: remove(child) on an item that is not the root, followed by a
\* successful checkpoint, takes child out of the contents of its parent and
\* makes get(key) Undefined for child and every descendant of child; remove
\* on the root raises ValueError and changes nothing.
C35_RemoveDeletes ==
    [][/\ (ContentCalled("checkpoint")
              /\ st.done.op = "remove" /\ st.done.err = "")
          => /\ \A k \in st.done.walked : delta_get(st'.s, k) = Undefined
             /\ \A f \in LiveFolders(st'.s) :
                   \A i \in 1 .. Len(st'.s.heap[f].contents) :
                       st'.s.heap[f].contents[i].key # st.done.arg[1]
       /\ (ContentCalled("remove") /\ st'.done.arg = <<ROOT>>)
          => /\ st'.done.err = "ValueError"
             /\ st'.s = st.s]_vars

(***************************************************************************)
(* mget and get of a delta.                                                *)
(***************************************************************************)
\* the entries that mget has yielded for a key
MgetEntries(key) ==
    { i \in 1 .. Len(st.done.out) : st.done.out[i].key = key }

\* C39: inside a delta mget agrees with get for every key: a key changed in
\* the delta yields the pending object, a key deleted in the delta yields
\* Undefined, and any other key yields the value of the underlying zipper.
C39_MgetAgrees ==
    (st.s # None /\ st.s.kind = "content" /\ st.done.op = "mget")
        => \A j \in 1 .. Len(st.done.arg) :
              /\ Cardinality(MgetEntries(st.done.arg[j])) = 1
              /\ \A i \in MgetEntries(st.done.arg[j]) :
                    st.done.out[i].value = delta_get(st.s, st.done.arg[j])

====
